---- MODULE Spec2Model ----
(***************************************************************************)
(* School Voice: the row-level-security policies on school_members,        *)
(* invitations, tone_profiles and content_drafts, the SECURITY DEFINER     *)
(* read procedures, and the client operations of schoolStore.ts that run   *)
(* against them.                                                           *)
(*                                                                         *)
(* PostgreSQL combines the permissive policies of a table with OR, so the  *)
(* decision for a command is the disjunction of every policy that no later *)
(* migration drops.  The policy predicates are modelled by their logical   *)
(* content (what the USING / WITH CHECK expression says about the table).  *)
(***************************************************************************)
EXTENDS Integers, FiniteSets, Sequences, TLC

\* ---------------------------------------------------------------- domains
Users == {"u1", "u2"}
Schools == {"s1", "s2"}
Roles == {"admin", "member"}
NoUser == "-"
\* client sessions (browser tabs); a user may be signed in on both
Sessions == {"k1", "k2"}

\* authenticated e-mail of each user (auth.jwt() ->> 'email')
Email == [u \in Users |-> IF u = "u1" THEN "a@x" ELSE "B@x"]

\* String.prototype.toLowerCase on the e-mail alphabet
toLowerCase(e) == IF e = "B@x" THEN "b@x" ELSE e

\* ----------------------------------------------------------------- bounds
\* rows that school_members holds
MaxMembers == 2
\* rows that tone_profiles holds
MaxProfiles == 1
\* rows that content_drafts holds
MaxDrafts == 1
\* rows that invitations holds
MaxInvitations == 1
\* days the clock runs for
MaxTime == 14
\* rows that super_admin_actions holds
MaxAudit == 2
\* retryWithBackoff = async (fn, maxRetries = 5, initialDelay = 1000)
maxRetries == 5
initialDelay == 1000
\* expiresAt.setDate(expiresAt.getDate() + 7)
InvitationDays == 7
ProfileIds == 1..MaxProfiles
Tokens == 1..MaxInvitations
Never == 0 - 1

\* -------------------------------------------------------------------- rows
\* school_members(school_id, user_id, role), UNIQUE(school_id, user_id)
MemberRow(s, u, r) == [school_id |-> s, user_id |-> u, role |-> r]

\* invitations(token, school_id, email, role, expires_at, accepted_at); the
\* token stands for the id as well
InvitationRow(t, s, e, r, x, a) ==
  [school_id |-> s, role |-> r, token |-> t, email |-> e, expires_at |-> x, accepted_at |-> a]

\* tone_profiles(id, school_id)
ToneProfileRow(id, s) == [school_id |-> s, id |-> id]

\* content_drafts(id, school_id, tone_profile_id, user_id); rev tells an
\* edited draft from the one that was saved
DraftRow(id, s, p, u) ==
  [school_id |-> s, user_id |-> u, id |-> id, tone_profile_id |-> p, rev |-> 0]

\* super_admin_actions(admin_id, action_type, affected_user_id,
\* affected_school_id)
AuditAction(a, t, u, s) ==
  [admin_id |-> a, action_type |-> t, affected_user_id |-> u, affected_school_id |-> s]

\* the answer to a request. status: "ok" (rows returned or changed), "denied"
\* (42501, the row fails a WITH CHECK), "notfound" (no row passes USING:
\* empty result, nothing changed, no error), "conflict" (23505 / 23503); of
\* acceptInvitation also "invalid" ('Invalid or expired invitation'),
\* "mismatch" (sent to a different email address) and "error" (the
\* accepted_at update failed)
Resp(op, c, s, t, st) ==
  [school_id |-> s, op |-> op, caller |-> c, target |-> t, status |-> st]

NoResp == Resp("none", NoUser, "-", NoUser, "ok")

\* a session without a call in progress
Idle == [pc |-> "idle"]

\* a statement or handler in progress: what it holds and what it has decided
Stmt(pc, c, row, verdict) == [pc |-> pc, row |-> row, verdict |-> verdict, user |-> c]

\* an error of supabase-js as the retry helper looks at it: status, message,
\* error.status and body; 0 and "" stand for a field that is not there
AuthError(status, message, errorStatus, body) ==
  [status |-> status, message |-> message, errorStatus |-> errorStatus, body |-> body]

NoError == AuthError(0, "", 0, "")

\* the frame of retryWithBackoff(fn): where it is (pc), its locals retries
\* and delay, how often fn has been invoked, the delays it has waited for,
\* and the error it has caught last
Frame(pc, fn, retries, delay, calls, waits, error) ==
  [pc |-> pc, fn |-> fn, retries |-> retries, delay |-> delay, calls |-> calls,
   waits |-> waits, error |-> error]

NoFrame == Frame("idle", "-", 0, 0, 0, <<>>, NoError)

\* the auth store of a session: the lookup loadUserSchools is at (pc, "ready"
\* when it is not running), the error its last lookup came back with, and the
\* state the components read: user (the id, NoUser for null) with
\* isSuperAdmin and schools (a set of <<id, role>>), currentSchool (one such
\* pair, NoSchool for null) and isLoadingSchools
AuthStore(pc, user, error, isSuperAdmin, schools, currentSchool, isLoadingSchools) ==
  [pc |-> pc, user |-> user, error |-> error, isSuperAdmin |-> isSuperAdmin,
   schools |-> schools, currentSchool |-> currentSchool,
   isLoadingSchools |-> isLoadingSchools]

NoSchool == <<"-", "-">>

VARIABLES
  schools,          \* ids of the rows of schools
  school_members,   \* rows of school_members: [school_id, user_id, role]
  invitations,      \* rows of invitations: [token, school_id, email, role, expires_at, accepted_at]
  tone_profiles,    \* rows of tone_profiles: [id, school_id]
  content_drafts,   \* rows of content_drafts: [id, school_id, tone_profile_id, user_id, rev]
  superAdmins,      \* users whose is_super_admin flag is true
  super_admin_actions, \* the audit log: rows of super_admin_actions, oldest first
  now,              \* the clock
  sess,             \* per client session: the statement or handler in progress
  retry,            \* the frame of retryWithBackoff: its locals and what it has done
  last              \* outcome of the most recent request

vars ==
  <<schools, school_members, invitations, tone_profiles, content_drafts, superAdmins,
    super_admin_actions, now, sess, retry, last>>

\* -------------------------------------------------------- helper functions
is_super_admin(c) == c \in superAdmins

is_school_admin(c, s) ==
  \E m \in school_members : m.user_id = c /\ m.school_id = s /\ m.role = "admin"

school_has_members(s) == \E m \in school_members : m.school_id = s

\* EXISTS (SELECT 1 FROM school_members WHERE school_id = .. AND user_id = auth.uid())
is_school_member(c, s) ==
  \E m \in school_members : m.user_id = c /\ m.school_id = s

\* ------------------------------------------------ policies: school_members
UsersCanViewOwnMemberships(c, row) == row.user_id = c

AdminsCanViewSchoolMembers(c, row) == is_school_admin(c, row.school_id)

CreateSchoolMembership(c, row) ==
  \/ /\ row.user_id = c
     /\ row.role = "admin"
     /\ ~ school_has_members(row.school_id)
  \/ is_school_admin(c, row.school_id)

UpdateSchoolMembership(c, row) ==
  row.user_id # c /\ is_school_admin(c, row.school_id)

DeleteSchoolMembership(c, row) ==
  row.user_id # c /\ is_school_admin(c, row.school_id)

sm_view_own(c, row) == row.user_id = c

sm_create_first_admin(c, row) == ~ school_has_members(row.school_id)

sm_admin_add_members(c, row) == is_school_admin(c, row.school_id)

sm_admin_view_members(c, row) == is_school_admin(c, row.school_id)

sm_admin_update_members(c, row) == is_school_admin(c, row.school_id)

sm_admin_delete_members(c, row) == is_school_admin(c, row.school_id)

SuperAdminsCanManageAllSchoolMembers(c, row) == is_super_admin(c)

MemberSelectPolicy(c, row) ==
  \/ UsersCanViewOwnMemberships(c, row)
  \/ AdminsCanViewSchoolMembers(c, row)
  \/ sm_view_own(c, row)
  \/ sm_admin_view_members(c, row)
  \/ SuperAdminsCanManageAllSchoolMembers(c, row)

MemberInsertPolicy(c, row) ==
  \/ CreateSchoolMembership(c, row)
  \/ sm_create_first_admin(c, row)
  \/ sm_admin_add_members(c, row)
  \/ SuperAdminsCanManageAllSchoolMembers(c, row)

MemberUpdatePolicy(c, row) ==
  \/ UpdateSchoolMembership(c, row)
  \/ sm_admin_update_members(c, row)
  \/ SuperAdminsCanManageAllSchoolMembers(c, row)

MemberDeletePolicy(c, row) ==
  \/ DeleteSchoolMembership(c, row)
  \/ sm_admin_delete_members(c, row)
  \/ SuperAdminsCanManageAllSchoolMembers(c, row)

\* --------------------------------------------------- policies: invitations
AdminsCanManageInvitations(c, row) == is_school_admin(c, row.school_id)

UsersCanReadOwnInvitations(c, row) == row.email = Email[c]

SuperAdminsCanManageAllInvitations(c, row) == is_super_admin(c)

InvitationSelectPolicy(c, row) ==
  \/ AdminsCanManageInvitations(c, row)
  \/ UsersCanReadOwnInvitations(c, row)
  \/ SuperAdminsCanManageAllInvitations(c, row)

InvitationWritePolicy(c, row) ==
  \/ AdminsCanManageInvitations(c, row)
  \/ SuperAdminsCanManageAllInvitations(c, row)

\* ------------------------------------------------- policies: tone_profiles
\* the read policy without its school correlation: any membership anywhere
MembersCanReadToneProfilesAnySchool(c, row) ==
  \E m \in school_members : m.user_id = c

MembersCanReadToneProfiles(c, row) == is_school_member(c, row.school_id)

\* the write policies without their role comparison
MembersCanManageToneProfiles(c, row) == is_school_member(c, row.school_id)

AdminsCanManageToneProfiles(c, row) == is_school_admin(c, row.school_id)

SuperAdminsCanManageAllToneProfiles(c, row) == is_super_admin(c)

ToneProfileSelectPolicy(c, row) ==
  \/ MembersCanReadToneProfiles(c, row)
  \/ SuperAdminsCanManageAllToneProfiles(c, row)

ToneProfileWritePolicy(c, row) ==
  \/ AdminsCanManageToneProfiles(c, row)
  \/ SuperAdminsCanManageAllToneProfiles(c, row)

\* ------------------------------------------------ policies: content_drafts
UsersCanReadContentDraftsFromTheirSchool(c, row) == is_school_member(c, row.school_id)

\* the manage policy without its author comparison
UsersCanManageContentDraftsOfTheirSchool(c, row) ==
  is_school_member(c, row.school_id)

UsersCanManageTheirOwnContentDrafts(c, row) ==
  row.user_id = c /\ is_school_member(c, row.school_id)

SuperAdminsCanManageAllContentDrafts(c, row) == is_super_admin(c)

DraftSelectPolicy(c, row) ==
  \/ UsersCanReadContentDraftsFromTheirSchool(c, row)
  \/ UsersCanManageTheirOwnContentDrafts(c, row)
  \/ SuperAdminsCanManageAllContentDrafts(c, row)

DraftWritePolicy(c, row) ==
  \/ UsersCanManageTheirOwnContentDrafts(c, row)
  \/ SuperAdminsCanManageAllContentDrafts(c, row)

\* ------------------------------------------------------ policies: schools
\* a row of schools is named by its id
AdminCanCreateSchools(c, s) == TRUE

public_can_create_schools(c, s) == TRUE

UsersCanReadSchoolsTheyBelongTo(c, s) == is_school_member(c, s)

AdminsCanUpdateSchools(c, s) == is_school_admin(c, s)

\* schools without a policy for super admins
NoPolicyForSuperAdmins(c, s) == FALSE

\* FOR ALL .. USING (is_super_admin()): the USING expression is the WITH
\* CHECK as well
SuperAdminsCanManageAllSchools(c, s) == is_super_admin(c)

SchoolSelectPolicy(c, s) ==
  \/ UsersCanReadSchoolsTheyBelongTo(c, s)
  \/ SuperAdminsCanManageAllSchools(c, s)

SchoolInsertPolicy(c, s) ==
  \/ AdminCanCreateSchools(c, s)
  \/ public_can_create_schools(c, s)
  \/ SuperAdminsCanManageAllSchools(c, s)

SchoolUpdatePolicy(c, s) ==
  \/ AdminsCanUpdateSchools(c, s)
  \/ SuperAdminsCanManageAllSchools(c, s)

\* no DELETE policy but the super admins' FOR ALL
SchoolDeletePolicy(c, s) == SuperAdminsCanManageAllSchools(c, s)

\* ------------------------------------------- SECURITY DEFINER procedures
get_school_members(c, s) ==
  {m \in school_members : m.school_id = s /\ (is_school_member(c, s) \/ is_super_admin(c))}

get_tone_profiles(c, s) ==
  {t \in tone_profiles : t.school_id = s /\ (is_school_member(c, s) \/ is_super_admin(c))}

get_school_invitations(c, s) ==
  {i \in invitations : i.school_id = s /\ (is_school_admin(c, s) \/ is_super_admin(c))}


\* ------------------------------------------------------------- requests


Init ==
  /\ schools = Schools
  /\ school_members = {}
  /\ invitations = {}
  /\ tone_profiles = {}
  /\ content_drafts = {}
  /\ superAdmins \in {{}, {"u2"}}
  /\ super_admin_actions = <<>>
  /\ now = 0
  /\ sess = [k \in Sessions |-> Idle]
  /\ retry = NoFrame
  /\ last = NoResp

\* ---- school_members: direct table commands
\* INSERT INTO school_members (school_id, user_id, role)
MemberInsert(c, row) ==
  /\ last = NoResp
  /\ row.school_id \in schools
  /\ Cardinality(school_members) < MaxMembers
  /\ IF ~ MemberInsertPolicy(c, row)
       THEN /\ last' = Resp("MemberInsert", c, row.school_id, row.user_id, "denied")
            /\ UNCHANGED school_members
       ELSE IF \E m \in school_members : m.school_id = row.school_id /\ m.user_id = row.user_id
         THEN /\ last' = Resp("MemberInsert", c, row.school_id, row.user_id, "conflict")
              /\ UNCHANGED school_members
         ELSE /\ school_members' = school_members \cup {row}
              /\ last' = Resp("MemberInsert", c, row.school_id, row.user_id, "ok")
  /\ UNCHANGED <<schools, invitations, tone_profiles, content_drafts, superAdmins, super_admin_actions, now, sess, retry>>

\* supabase.from('school_members').update({ role }).eq('id', memberId)
updateMemberRole(c, row, role) ==
  /\ last = NoResp
  /\ row \in school_members
  /\ LET new == MemberRow(row.school_id, row.user_id, role) IN
     IF ~ (MemberSelectPolicy(c, row) /\ MemberUpdatePolicy(c, row))
       THEN /\ last' = Resp("updateMemberRole", c, row.school_id, row.user_id, "notfound")
            /\ UNCHANGED school_members
       ELSE IF ~ MemberUpdatePolicy(c, new)
         THEN /\ last' = Resp("updateMemberRole", c, row.school_id, row.user_id, "denied")
              /\ UNCHANGED school_members
         ELSE /\ school_members' = (school_members \ {row}) \cup {new}
              /\ last' = Resp("updateMemberRole", c, row.school_id, row.user_id, "ok")
  /\ UNCHANGED <<schools, invitations, tone_profiles, content_drafts, superAdmins, super_admin_actions, now, sess, retry>>

\* supabase.from('school_members').delete().eq('id', memberId)
removeMember(c, row) ==
  /\ last = NoResp
  /\ row \in school_members
  /\ IF MemberSelectPolicy(c, row) /\ MemberDeletePolicy(c, row)
       THEN /\ school_members' = school_members \ {row}
            /\ last' = Resp("removeMember", c, row.school_id, row.user_id, "ok")
       ELSE /\ last' = Resp("removeMember", c, row.school_id, row.user_id, "notfound")
            /\ UNCHANGED school_members
  /\ UNCHANGED <<schools, invitations, tone_profiles, content_drafts, superAdmins, super_admin_actions, now, sess, retry>>

\* supabase.from('school_members').select(..).eq('school_id', schoolId)
fetchMembers(c, s) ==
  /\ last = NoResp
  /\ LET rows == {m \in school_members : m.school_id = s /\ MemberSelectPolicy(c, m)} IN
     last' = Resp("fetchMembers", c, s, NoUser, IF rows = {} THEN "notfound" ELSE "ok")
  /\ UNCHANGED <<schools, school_members, invitations, tone_profiles, content_drafts, superAdmins, super_admin_actions, now, sess, retry>>

\* supabase.rpc('get_school_members', { p_school_id })
RpcGetSchoolMembers(c, s) ==
  /\ last = NoResp
  /\ LET rows == get_school_members(c, s) IN
     last' = Resp("get_school_members", c, s, NoUser, IF rows = {} THEN "notfound" ELSE "ok")
  /\ UNCHANGED <<schools, school_members, invitations, tone_profiles, content_drafts, superAdmins, super_admin_actions, now, sess, retry>>


\* ---- invitations
\* schoolStore.createInvitation: INSERT INTO invitations
createInvitation(c, s, email, role) ==
  /\ last = NoResp
  /\ s \in schools
  /\ Cardinality(invitations) < MaxInvitations
  /\ LET token == CHOOSE t \in Tokens : \A i \in invitations : i.token # t
         row == InvitationRow(token, s, toLowerCase(email), role, now + InvitationDays, Never) IN
     IF ~ InvitationWritePolicy(c, row)
       THEN /\ last' = Resp("createInvitation", c, s, NoUser, "denied")
            /\ UNCHANGED invitations
       ELSE IF \E i \in invitations : i.school_id = s /\ i.email = row.email
         THEN /\ last' = Resp("createInvitation", c, s, NoUser, "conflict")
              /\ UNCHANGED invitations
         ELSE /\ invitations' = invitations \cup {row}
              /\ last' = Resp("createInvitation", c, s, NoUser, "ok")
  /\ UNCHANGED <<schools, school_members, tone_profiles, content_drafts, superAdmins, super_admin_actions, now, sess, retry>>

\* schoolStore.deleteInvitation: DELETE FROM invitations WHERE id = ..
deleteInvitation(c, inv) ==
  /\ last = NoResp
  /\ inv \in invitations
  /\ IF InvitationSelectPolicy(c, inv) /\ InvitationWritePolicy(c, inv)
       THEN /\ invitations' = invitations \ {inv}
            /\ last' = Resp("deleteInvitation", c, inv.school_id, NoUser, "ok")
       ELSE /\ last' = Resp("deleteInvitation", c, inv.school_id, NoUser, "notfound")
            /\ UNCHANGED invitations
  /\ UNCHANGED <<schools, school_members, tone_profiles, content_drafts, superAdmins, super_admin_actions, now, sess, retry>>

\* SELECT .. FROM invitations WHERE school_id = .. (the rows the policies let through)
fetchInvitations(c, s) ==
  /\ last = NoResp
  /\ LET rows == {i \in invitations : i.school_id = s /\ InvitationSelectPolicy(c, i)} IN
     last' = Resp("fetchInvitations", c, s, NoUser, IF rows = {} THEN "notfound" ELSE "ok")
  /\ UNCHANGED <<schools, school_members, invitations, tone_profiles, content_drafts, superAdmins, super_admin_actions, now, sess, retry>>

\* supabase.rpc('get_school_invitations', { p_school_id })
RpcGetSchoolInvitations(c, s) ==
  /\ last = NoResp
  /\ LET rows == get_school_invitations(c, s) IN
     last' = Resp("get_school_invitations", c, s, NoUser, IF rows = {} THEN "notfound" ELSE "ok")
  /\ UNCHANGED <<schools, school_members, invitations, tone_profiles, content_drafts, superAdmins, super_admin_actions, now, sess, retry>>

\* ---- tone_profiles: direct table commands
ToneProfileInsert(c, s) ==
  /\ last = NoResp
  /\ s \in schools
  /\ Cardinality(tone_profiles) < MaxProfiles
  /\ LET id == CHOOSE k \in ProfileIds : \A t \in tone_profiles : t.id # k
         row == ToneProfileRow(id, s) IN
     IF ToneProfileWritePolicy(c, row)
       THEN /\ tone_profiles' = tone_profiles \cup {row}
            /\ last' = Resp("ToneProfileInsert", c, s, NoUser, "ok")
       ELSE /\ last' = Resp("ToneProfileInsert", c, s, NoUser, "denied")
            /\ UNCHANGED tone_profiles
  /\ UNCHANGED <<schools, school_members, invitations, content_drafts, superAdmins, super_admin_actions, now, sess, retry>>

\* the columns an update changes (name, dimensions, is_active) are not among
\* those the rows here keep; the outcome is in the response
ToneProfileUpdate(c, t) ==
  /\ last = NoResp
  /\ t \in tone_profiles
  /\ IF ToneProfileSelectPolicy(c, t) /\ ToneProfileWritePolicy(c, t)
       THEN /\ tone_profiles' = tone_profiles
            /\ last' = Resp("ToneProfileUpdate", c, t.school_id, NoUser, "ok")
       ELSE /\ last' = Resp("ToneProfileUpdate", c, t.school_id, NoUser, "notfound")
            /\ UNCHANGED tone_profiles
  /\ UNCHANGED <<schools, school_members, invitations, content_drafts, superAdmins, super_admin_actions, now, sess, retry>>

\* content_drafts.tone_profile_id REFERENCES tone_profiles(id): no ON DELETE action
ToneProfileDelete(c, t) ==
  /\ last = NoResp
  /\ t \in tone_profiles
  /\ IF ~ (ToneProfileSelectPolicy(c, t) /\ ToneProfileWritePolicy(c, t))
       THEN /\ last' = Resp("ToneProfileDelete", c, t.school_id, NoUser, "notfound")
            /\ UNCHANGED tone_profiles
       ELSE IF \E d \in content_drafts : d.tone_profile_id = t.id
         THEN /\ last' = Resp("ToneProfileDelete", c, t.school_id, NoUser, "conflict")
              /\ UNCHANGED tone_profiles
         ELSE /\ tone_profiles' = tone_profiles \ {t}
              /\ last' = Resp("ToneProfileDelete", c, t.school_id, NoUser, "ok")
  /\ UNCHANGED <<schools, school_members, invitations, content_drafts, superAdmins, super_admin_actions, now, sess, retry>>

ToneProfileSelect(c, s) ==
  /\ last = NoResp
  /\ LET rows == {t \in tone_profiles : t.school_id = s /\ ToneProfileSelectPolicy(c, t)} IN
     last' = Resp("ToneProfileSelect", c, s, NoUser, IF rows = {} THEN "notfound" ELSE "ok")
  /\ UNCHANGED <<schools, school_members, invitations, tone_profiles, content_drafts, superAdmins, super_admin_actions, now, sess, retry>>

\* supabase.rpc('get_tone_profiles', { p_school_id })
RpcGetToneProfiles(c, s) ==
  /\ last = NoResp
  /\ LET rows == get_tone_profiles(c, s) IN
     last' = Resp("get_tone_profiles", c, s, NoUser, IF rows = {} THEN "notfound" ELSE "ok")
  /\ UNCHANGED <<schools, school_members, invitations, tone_profiles, content_drafts, superAdmins, super_admin_actions, now, sess, retry>>

\* ---- content_drafts: direct table commands
DraftInsert(c, s, p, u) ==
  /\ last = NoResp
  /\ s \in schools
  /\ \E t \in tone_profiles : t.id = p
  /\ Cardinality(content_drafts) < MaxDrafts
  /\ LET id == CHOOSE k \in 1..MaxDrafts : \A d \in content_drafts : d.id # k
         row == DraftRow(id, s, p, u) IN
     IF DraftWritePolicy(c, row)
       THEN /\ content_drafts' = content_drafts \cup {row}
            /\ last' = Resp("DraftInsert", c, s, u, "ok")
       ELSE /\ last' = Resp("DraftInsert", c, s, u, "denied")
            /\ UNCHANGED content_drafts
  /\ UNCHANGED <<schools, school_members, invitations, tone_profiles, superAdmins, super_admin_actions, now, sess, retry>>

DraftUpdate(c, d) ==
  /\ last = NoResp
  /\ d \in content_drafts
  /\ IF DraftSelectPolicy(c, d) /\ DraftWritePolicy(c, d)
       THEN /\ content_drafts' = (content_drafts \ {d}) \cup {[d EXCEPT !.rev = 1 - d.rev]}
            /\ last' = Resp("DraftUpdate", c, d.school_id, d.user_id, "ok")
       ELSE /\ last' = Resp("DraftUpdate", c, d.school_id, d.user_id, "notfound")
            /\ UNCHANGED content_drafts
  /\ UNCHANGED <<schools, school_members, invitations, tone_profiles, superAdmins, super_admin_actions, now, sess, retry>>

DraftDelete(c, d) ==
  /\ last = NoResp
  /\ d \in content_drafts
  /\ IF DraftSelectPolicy(c, d) /\ DraftWritePolicy(c, d)
       THEN /\ content_drafts' = content_drafts \ {d}
            /\ last' = Resp("DraftDelete", c, d.school_id, d.user_id, "ok")
       ELSE /\ last' = Resp("DraftDelete", c, d.school_id, d.user_id, "notfound")
            /\ UNCHANGED content_drafts
  /\ UNCHANGED <<schools, school_members, invitations, tone_profiles, superAdmins, super_admin_actions, now, sess, retry>>

DraftSelect(c, s) ==
  /\ last = NoResp
  /\ LET rows == {d \in content_drafts : d.school_id = s /\ DraftSelectPolicy(c, d)} IN
     last' = Resp("DraftSelect", c, s, NoUser, IF rows = {} THEN "notfound" ELSE "ok")
  /\ UNCHANGED <<schools, school_members, invitations, tone_profiles, content_drafts, superAdmins, super_admin_actions, now, sess, retry>>

\* ---- content_drafts: contentStore
\* contentStore.updateDraft: the draft is read first and its user_id compared
\* with the signed-in user's; then UPDATE content_drafts .. WHERE id = ..
updateDraft(c, d) ==
  /\ last = NoResp
  /\ d \in content_drafts
  /\ IF ~ DraftSelectPolicy(c, d)
       THEN /\ last' = Resp("updateDraft", c, d.school_id, d.user_id, "notfound")
            /\ UNCHANGED content_drafts
       ELSE IF d.user_id # c
         THEN /\ last' = Resp("updateDraft", c, d.school_id, d.user_id, "denied")
              /\ UNCHANGED content_drafts
         ELSE /\ content_drafts' =
                   IF DraftWritePolicy(c, d)
                     THEN (content_drafts \ {d}) \cup {[d EXCEPT !.rev = 1 - d.rev]}
                     ELSE content_drafts
              /\ last' = Resp("updateDraft", c, d.school_id, d.user_id, "ok")
  /\ UNCHANGED <<schools, school_members, invitations, tone_profiles, superAdmins, super_admin_actions, now, sess, retry>>

\* contentStore.deleteDraft: the same read and comparison, then DELETE
deleteDraft(c, d) ==
  /\ last = NoResp
  /\ d \in content_drafts
  /\ IF ~ DraftSelectPolicy(c, d)
       THEN /\ last' = Resp("deleteDraft", c, d.school_id, d.user_id, "notfound")
            /\ UNCHANGED content_drafts
       ELSE IF d.user_id # c
         THEN /\ last' = Resp("deleteDraft", c, d.school_id, d.user_id, "denied")
              /\ UNCHANGED content_drafts
         ELSE /\ content_drafts' =
                   IF DraftWritePolicy(c, d) THEN content_drafts \ {d} ELSE content_drafts
              /\ last' = Resp("deleteDraft", c, d.school_id, d.user_id, "ok")
  /\ UNCHANGED <<schools, school_members, invitations, tone_profiles, superAdmins, super_admin_actions, now, sess, retry>>

\* the response reaches the caller; the next request can be issued
Settle ==
  /\ last # NoResp
  /\ last' = NoResp
  /\ UNCHANGED <<schools, school_members, invitations, tone_profiles, content_drafts, superAdmins, super_admin_actions, now, sess, retry>>

\* ------------------------------------------ direct requests, one at a time
Next ==
  \/ Settle
  \/ \E c \in Users, s \in Schools, u \in Users, r \in Roles : MemberInsert(c, MemberRow(s, u, r))
  \/ \E c \in Users, m \in school_members, r \in Roles : updateMemberRole(c, m, r)
  \/ \E c \in Users, m \in school_members : removeMember(c, m)
  \/ \E c \in Users, s \in Schools : fetchMembers(c, s)
  \/ \E c \in Users, s \in Schools : RpcGetSchoolMembers(c, s)
  \/ \E c \in Users, s \in Schools, e \in {Email[u] : u \in Users} : createInvitation(c, s, e, "member")
  \/ \E c \in Users, i \in invitations : deleteInvitation(c, i)
  \/ \E c \in Users, s \in Schools : fetchInvitations(c, s)
  \/ \E c \in Users, s \in Schools : RpcGetSchoolInvitations(c, s)
  \/ \E c \in Users, s \in Schools : ToneProfileInsert(c, s)
  \/ \E c \in Users, t \in tone_profiles : ToneProfileUpdate(c, t)
  \/ \E c \in Users, t \in tone_profiles : ToneProfileDelete(c, t)
  \/ \E c \in Users, s \in Schools : ToneProfileSelect(c, s)
  \/ \E c \in Users, s \in Schools : RpcGetToneProfiles(c, s)
  \/ \E c \in Users, s \in Schools, p \in ProfileIds, u \in Users : DraftInsert(c, s, p, u)
  \/ \E c \in Users, d \in content_drafts : DraftUpdate(c, d)
  \/ \E c \in Users, d \in content_drafts : DraftDelete(c, d)
  \/ \E c \in Users, s \in Schools : DraftSelect(c, s)
  \/ \E c \in Users, d \in content_drafts : updateDraft(c, d)
  \/ \E c \in Users, d \in content_drafts : deleteDraft(c, d)

Spec == Init /\ [][Next]_vars

\* ------------------------------- statements of concurrent transactions
\* READ COMMITTED: a statement evaluates its policies on the snapshot taken
\* when it starts and writes when it completes; what another statement has
\* written in between is not in the snapshot. Unique indexes are checked
\* against the table as it is at the write.

\* INSERT INTO school_members: the WITH CHECK is evaluated; the verdict is
\* "first" when it passes on a school without members, "ok" when it passes
\* otherwise
MemberInsertBegin(k, c, row) ==
  /\ last = NoResp
  /\ sess[k] = Idle
  /\ row.school_id \in schools
  /\ Cardinality(school_members) < MaxMembers
  /\ sess' = [sess EXCEPT ![k] =
       Stmt("insert", c, row,
            IF ~ MemberInsertPolicy(c, row) THEN "denied"
            ELSE IF ~ school_has_members(row.school_id) THEN "first" ELSE "ok")]
  /\ UNCHANGED <<schools, school_members, invitations, tone_profiles, content_drafts, superAdmins, super_admin_actions, now, last, retry>>

\* INSERT INTO school_members: the row is written, UNIQUE(school_id, user_id)
MemberInsertEnd(k) ==
  /\ last = NoResp
  /\ sess[k].pc = "insert"
  /\ LET c == sess[k].user
         row == sess[k].row IN
     IF sess[k].verdict = "denied"
       THEN /\ last' = Resp("MemberInsert", c, row.school_id, row.user_id, "denied")
            /\ UNCHANGED school_members
       ELSE IF \E m \in school_members : m.school_id = row.school_id /\ m.user_id = row.user_id
         THEN /\ last' = Resp("MemberInsert", c, row.school_id, row.user_id, "conflict")
              /\ UNCHANGED school_members
         ELSE /\ school_members' = school_members \cup {row}
              /\ last' = Resp("MemberInsert", c, row.school_id, row.user_id, "ok")
  /\ sess' = [sess EXCEPT ![k] = Idle]
  /\ UNCHANGED <<schools, invitations, tone_profiles, content_drafts, superAdmins, super_admin_actions, now, retry>>

\* schoolStore.updateMemberRole: USING on the row, WITH CHECK on the new row
updateMemberRoleBegin(k, c, row, role) ==
  /\ last = NoResp
  /\ sess[k] = Idle
  /\ row \in school_members
  /\ LET new == MemberRow(row.school_id, row.user_id, role) IN
     sess' = [sess EXCEPT ![k] =
       Stmt("update", c, new,
            IF ~ (MemberSelectPolicy(c, row) /\ MemberUpdatePolicy(c, row)) THEN "notfound"
            ELSE IF ~ MemberUpdatePolicy(c, new) THEN "denied" ELSE "ok")]
  /\ UNCHANGED <<schools, school_members, invitations, tone_profiles, content_drafts, superAdmins, super_admin_actions, now, last, retry>>

\* schoolStore.updateMemberRole: the latest version of the target row is written
updateMemberRoleEnd(k) ==
  /\ last = NoResp
  /\ sess[k].pc = "update"
  /\ LET c == sess[k].user
         new == sess[k].row
         cur == {m \in school_members : m.school_id = new.school_id /\ m.user_id = new.user_id} IN
     IF sess[k].verdict # "ok"
       THEN /\ last' = Resp("updateMemberRole", c, new.school_id, new.user_id, sess[k].verdict)
            /\ UNCHANGED school_members
       ELSE IF cur = {}
         THEN /\ last' = Resp("updateMemberRole", c, new.school_id, new.user_id, "notfound")
              /\ UNCHANGED school_members
         ELSE /\ school_members' = (school_members \ cur) \cup {new}
              /\ last' = Resp("updateMemberRole", c, new.school_id, new.user_id, "ok")
  /\ sess' = [sess EXCEPT ![k] = Idle]
  /\ UNCHANGED <<schools, invitations, tone_profiles, content_drafts, superAdmins, super_admin_actions, now, retry>>

\* schoolStore.removeMember: USING on the row
removeMemberBegin(k, c, row) ==
  /\ last = NoResp
  /\ sess[k] = Idle
  /\ row \in school_members
  /\ sess' = [sess EXCEPT ![k] =
       Stmt("delete", c, row,
            IF MemberSelectPolicy(c, row) /\ MemberDeletePolicy(c, row) THEN "ok" ELSE "notfound")]
  /\ UNCHANGED <<schools, school_members, invitations, tone_profiles, content_drafts, superAdmins, super_admin_actions, now, last, retry>>

\* schoolStore.removeMember: the latest version of the target row is deleted
removeMemberEnd(k) ==
  /\ last = NoResp
  /\ sess[k].pc = "delete"
  /\ LET c == sess[k].user
         row == sess[k].row
         cur == {m \in school_members : m.school_id = row.school_id /\ m.user_id = row.user_id} IN
     IF sess[k].verdict # "ok" \/ cur = {}
       THEN /\ last' = Resp("removeMember", c, row.school_id, row.user_id, "notfound")
            /\ UNCHANGED school_members
       ELSE /\ school_members' = school_members \ cur
            /\ last' = Resp("removeMember", c, row.school_id, row.user_id, "ok")
  /\ sess' = [sess EXCEPT ![k] = Idle]
  /\ UNCHANGED <<schools, invitations, tone_profiles, content_drafts, superAdmins, super_admin_actions, now, retry>>

\* --------------------------- membership statements of two sessions at once
NextConc ==
  \/ Settle
  \/ \E k \in Sessions, c \in Users, s \in Schools, u \in Users, r \in Roles :
       MemberInsertBegin(k, c, MemberRow(s, u, r))
  \/ \E k \in Sessions : MemberInsertEnd(k)
  \/ \E k \in Sessions, c \in Users, m \in school_members, r \in Roles :
       updateMemberRoleBegin(k, c, m, r)
  \/ \E k \in Sessions : updateMemberRoleEnd(k)
  \/ \E k \in Sessions, c \in Users, m \in school_members : removeMemberBegin(k, c, m)
  \/ \E k \in Sessions : removeMemberEnd(k)

SpecConc == Init /\ [][NextConc]_vars

\* ------------------------------------------------ schoolStore.acceptInvitation
\* the lookup without its expiry filter
pendingOnly(inv, t) == inv.accepted_at = Never

\* .is('accepted_at', null).gt('expires_at', new Date().toISOString())
pendingUnexpired(inv, t) == inv.accepted_at = Never /\ inv.expires_at > t

\* the handler without its email comparison
emailNotCompared(c, inv) == TRUE

\* user.email?.toLowerCase() !== invitation.email.toLowerCase()
emailMatches(c, inv) == toLowerCase(Email[c]) = toLowerCase(inv.email)

\* what the handler holds of token t when it has no invitation row
NoInvitation(t) == InvitationRow(t, "-", "-", "-", Never, Never)

\* a finished call: the verdict is what the caller gets
Done(c, inv, st) == Stmt("done", c, inv, st)

\* lines 575-607: the invitation is looked up by token, then the signed-in
\* user's email is compared with the invitation's
acceptLookup(k, c, t) ==
  /\ last = NoResp
  /\ sess[k] = Idle
  /\ LET rows == {i \in invitations :
                    i.token = t /\ pendingUnexpired(i, now) /\ InvitationSelectPolicy(c, i)} IN
     IF rows = {}
       THEN /\ sess' = [sess EXCEPT ![k] = Done(c, NoInvitation(t), "invalid")]
            /\ last' = Resp("acceptInvitation", c, "-", NoUser, "invalid")
       ELSE LET inv == CHOOSE i \in rows : TRUE IN
            IF ~ emailMatches(c, inv)
              THEN /\ sess' = [sess EXCEPT ![k] = Done(c, NoInvitation(inv.token), "mismatch")]
                   /\ last' = Resp("acceptInvitation", c, inv.school_id, NoUser, "mismatch")
              ELSE /\ sess' = [sess EXCEPT ![k] = Stmt("found", c, inv, "-")]
                   /\ UNCHANGED last
  /\ UNCHANGED <<schools, school_members, invitations, tone_profiles, content_drafts, superAdmins, super_admin_actions, now, retry>>

\* lines 609-625: INSERT INTO school_members (school_id, user_id, role)
acceptInsertMember(k) ==
  /\ last = NoResp
  /\ sess[k].pc = "found"
  /\ LET c == sess[k].user
         inv == sess[k].row
         row == MemberRow(inv.school_id, c, inv.role) IN
     IF ~ MemberInsertPolicy(c, row)
       THEN /\ sess' = [sess EXCEPT ![k] = Done(c, NoInvitation(inv.token), "denied")]
            /\ last' = Resp("acceptInvitation", c, inv.school_id, NoUser, "denied")
            /\ UNCHANGED school_members
       ELSE IF \E m \in school_members : m.school_id = row.school_id /\ m.user_id = row.user_id
         THEN /\ sess' = [sess EXCEPT ![k] = Done(c, NoInvitation(inv.token), "conflict")]
              /\ last' = Resp("acceptInvitation", c, inv.school_id, NoUser, "conflict")
              /\ UNCHANGED school_members
         ELSE /\ school_members' = school_members \cup {row}
              /\ sess' = [sess EXCEPT ![k] = Stmt("inserted", c, inv, "-")]
              /\ UNCHANGED last
  /\ UNCHANGED <<schools, invitations, tone_profiles, content_drafts, superAdmins, super_admin_actions, now, retry>>

\* lines 627-635: UPDATE invitations SET accepted_at = now WHERE id = ..; the
\* rows the policies hide are skipped without an error
acceptMarkAccepted(k) ==
  /\ last = NoResp
  /\ sess[k].pc = "inserted"
  /\ LET c == sess[k].user
         inv == sess[k].row
         rows == {i \in invitations :
                    i.token = inv.token /\ InvitationSelectPolicy(c, i) /\ InvitationWritePolicy(c, i)} IN
     /\ invitations' = (invitations \ rows) \cup {[i EXCEPT !.accepted_at = now] : i \in rows}
     /\ sess' = [sess EXCEPT ![k] = Done(c, NoInvitation(inv.token), "ok")]
     /\ last' = Resp("acceptInvitation", c, inv.school_id, NoUser, "ok")
  /\ UNCHANGED <<schools, school_members, tone_profiles, content_drafts, superAdmins, super_admin_actions, now, retry>>

\* lines 632-635: the update comes back with an error, which is thrown
acceptMarkAcceptedFails(k) ==
  /\ last = NoResp
  /\ sess[k].pc = "inserted"
  /\ sess' = [sess EXCEPT ![k] = Done(sess[k].user, NoInvitation(sess[k].row.token), "error")]
  /\ last' = Resp("acceptInvitation", sess[k].user, sess[k].row.school_id, NoUser, "error")
  /\ UNCHANGED <<schools, school_members, invitations, tone_profiles, content_drafts, superAdmins, super_admin_actions, now, retry>>

\* the caller has its answer; the session can make another call
acceptReturn(k) ==
  /\ sess[k].pc = "done"
  /\ sess' = [sess EXCEPT ![k] = Idle]
  /\ UNCHANGED <<schools, school_members, invitations, tone_profiles, content_drafts, superAdmins, super_admin_actions, now, last, retry>>

\* time passes: the clock is read after another invitation lifetime
Tick ==
  /\ last = NoResp
  /\ now + InvitationDays <= MaxTime
  /\ now' = now + InvitationDays
  /\ UNCHANGED <<schools, school_members, invitations, tone_profiles, content_drafts, superAdmins, super_admin_actions, sess, last, retry>>

\* ------------------------ invitations of one school, created and accepted
InvitingSchools == {"s1"}

NextAccept ==
  \/ Settle
  \/ Tick
  \/ \E c \in Users, s \in InvitingSchools, u \in Users, r \in Roles :
       MemberInsert(c, MemberRow(s, u, r))
  \/ \E c \in Users, m \in school_members : removeMember(c, m)
  \/ \E c \in Users, s \in InvitingSchools, u \in Users :
       createInvitation(c, s, Email[u], "member")
  \/ \E k \in Sessions, c \in Users, t \in Tokens : acceptLookup(k, c, t)
  \/ \E k \in Sessions : acceptInsertMember(k)
  \/ \E k \in Sessions : acceptMarkAccepted(k)
  \/ \E k \in Sessions : acceptMarkAcceptedFails(k)
  \/ \E k \in Sessions : acceptReturn(k)

SpecAccept == Init /\ [][NextAccept]_vars

\* ------------------------------------------------------------------ schools
\* a database in which no school has been created yet
InitSchool ==
  /\ schools = {}
  /\ school_members = {}
  /\ invitations = {}
  /\ tone_profiles = {}
  /\ content_drafts = {}
  /\ superAdmins \in {{}, {"u2"}}
  /\ super_admin_actions = <<>>
  /\ now = 0
  /\ sess = [k \in Sessions |-> Idle]
  /\ retry = NoFrame
  /\ last = NoResp

\* gen_random_uuid() for schools.id
FreshSchool == CHOOSE s \in Schools : s \notin schools

\* INSERT INTO schools (name, website), nothing returned
SchoolInsert(c) ==
  /\ last = NoResp
  /\ schools # Schools
  /\ IF SchoolInsertPolicy(c, FreshSchool)
       THEN /\ schools' = schools \cup {FreshSchool}
            /\ last' = Resp("SchoolInsert", c, FreshSchool, NoUser, "ok")
       ELSE /\ last' = Resp("SchoolInsert", c, FreshSchool, NoUser, "denied")
            /\ UNCHANGED schools
  /\ UNCHANGED <<school_members, invitations, tone_profiles, content_drafts, superAdmins, super_admin_actions, now, sess, retry>>

\* schoolStore.fetchSchool: SELECT * FROM schools WHERE id = ..
fetchSchool(c, s) ==
  /\ last = NoResp
  /\ last' = Resp("fetchSchool", c, s, NoUser,
                  IF s \in schools /\ SchoolSelectPolicy(c, s) THEN "ok" ELSE "notfound")
  /\ UNCHANGED <<schools, school_members, invitations, tone_profiles, content_drafts, superAdmins, super_admin_actions, now, sess, retry>>

\* schoolStore.updateSchool: UPDATE schools SET name, website WHERE id = ..;
\* the columns it changes are not among those the model keeps
updateSchool(c, s) ==
  /\ last = NoResp
  /\ s \in schools
  /\ schools' = schools
  /\ last' = Resp("updateSchool", c, s, NoUser,
                  IF SchoolSelectPolicy(c, s) /\ SchoolUpdatePolicy(c, s) THEN "ok" ELSE "notfound")
  /\ UNCHANGED <<school_members, invitations, tone_profiles, content_drafts, superAdmins, super_admin_actions, now, sess, retry>>

\* the tables after DELETE FROM schools WHERE id = s: school_id REFERENCES
\* schools(id) ON DELETE CASCADE in all four
SchoolRowDeleted(s) ==
  /\ schools' = schools \ {s}
  /\ school_members' = {m \in school_members : m.school_id # s}
  /\ invitations' = {i \in invitations : i.school_id # s}
  /\ tone_profiles' = {t \in tone_profiles : t.school_id # s}
  /\ content_drafts' = {d \in content_drafts : d.school_id # s}

\* DELETE FROM schools WHERE id = ..; 23503 when a row keeps the schools row
\* or one of its tone_profiles from being deleted:
\* super_admin_actions.affected_school_id REFERENCES schools(id) and
\* content_drafts.tone_profile_id REFERENCES tone_profiles(id), both without
\* ON DELETE, the latter of a draft that the cascade does not delete itself
SchoolDelete(c, s) ==
  /\ last = NoResp
  /\ s \in schools
  /\ IF ~ (SchoolSelectPolicy(c, s) /\ SchoolDeletePolicy(c, s))
       THEN /\ last' = Resp("SchoolDelete", c, s, NoUser, "notfound")
            /\ UNCHANGED <<schools, school_members, invitations, tone_profiles, content_drafts>>
       ELSE IF \/ \E n \in 1..Len(super_admin_actions) :
                       super_admin_actions[n].affected_school_id = s
               \/ \E d \in content_drafts, t \in tone_profiles :
                       d.school_id # s /\ d.tone_profile_id = t.id /\ t.school_id = s
       THEN /\ last' = Resp("SchoolDelete", c, s, NoUser, "conflict")
            /\ UNCHANGED <<schools, school_members, invitations, tone_profiles, content_drafts>>
       ELSE /\ SchoolRowDeleted(s)
            /\ last' = Resp("SchoolDelete", c, s, NoUser, "ok")
  /\ UNCHANGED <<superAdmins, super_admin_actions, now, sess, retry>>

\* ---- authStore
\* user.schools as loadUserSchools fills it, a set of <<id, role>>: every
\* school the policies show a super admin, with role admin; for the others
\* the caller's memberships
loadUserSchools(c) ==
  IF is_super_admin(c)
    THEN {<<s, "admin">> : s \in {x \in schools : SchoolSelectPolicy(c, x)}}
    ELSE {<<m.school_id, m.role>> : m \in {x \in school_members : x.user_id = c}}

\* authStore.isAdmin(schoolId) on a user whose flag and schools are loaded
isAdmin(isSuperAdmin, userSchools, schoolId) ==
  IF isSuperAdmin THEN TRUE
  ELSE \E school \in userSchools : school[1] = schoolId /\ school[2] = "admin"

\* the client asks isAdmin(s) after loading the user's flag and schools
isAdminAsked(c, s) ==
  /\ last = NoResp
  /\ s \in schools
  /\ last' = Resp("isAdmin", c, s, NoUser,
                  IF isAdmin(is_super_admin(c), loadUserSchools(c), s) THEN "ok" ELSE "denied")
  /\ UNCHANGED <<schools, school_members, invitations, tone_profiles, content_drafts, superAdmins, super_admin_actions, now, sess, retry>>

\* ---- schoolStore.createSchool
\* lines 199-216: INSERT INTO schools .. RETURNING *; the new row has to pass
\* the SELECT policies as well, or the statement is refused and no row is
\* written
createSchoolInsert(k, c) ==
  /\ last = NoResp
  /\ sess[k] = Idle
  /\ schools # Schools
  /\ IF SchoolInsertPolicy(c, FreshSchool) /\ SchoolSelectPolicy(c, FreshSchool)
       THEN /\ schools' = schools \cup {FreshSchool}
            /\ sess' = [sess EXCEPT ![k] = Stmt("created", c, MemberRow(FreshSchool, c, "admin"), "-")]
            /\ UNCHANGED last
       ELSE /\ sess' = [sess EXCEPT ![k] = Done(c, MemberRow(FreshSchool, c, "admin"), "denied")]
            /\ last' = Resp("createSchool", c, FreshSchool, NoUser, "denied")
            /\ UNCHANGED schools
  /\ UNCHANGED <<school_members, invitations, tone_profiles, content_drafts, superAdmins, super_admin_actions, now, retry>>

\* lines 224-231: INSERT INTO school_members (school_id, user_id, 'admin')
createSchoolAddMember(k) ==
  /\ last = NoResp
  /\ sess[k].pc = "created"
  /\ Cardinality(school_members) < MaxMembers
  /\ LET c == sess[k].user
         row == sess[k].row IN
     IF row.school_id \notin schools
       THEN /\ sess' = [sess EXCEPT ![k] = Stmt("memberFailed", c, row, "conflict")]
            /\ UNCHANGED <<school_members, last>>
       ELSE IF ~ MemberInsertPolicy(c, row)
         THEN /\ sess' = [sess EXCEPT ![k] = Stmt("memberFailed", c, row, "denied")]
              /\ UNCHANGED <<school_members, last>>
         ELSE IF \E m \in school_members : m.school_id = row.school_id /\ m.user_id = row.user_id
           THEN /\ sess' = [sess EXCEPT ![k] = Stmt("memberFailed", c, row, "conflict")]
                /\ UNCHANGED <<school_members, last>>
           ELSE /\ school_members' = school_members \cup {row}
                /\ sess' = [sess EXCEPT ![k] = Done(c, row, "ok")]
                /\ last' = Resp("createSchool", c, row.school_id, NoUser, "ok")
  /\ UNCHANGED <<schools, invitations, tone_profiles, content_drafts, superAdmins, super_admin_actions, now, retry>>

\* lines 224-233: the insert comes back with an error of the transport or
\* the server
createSchoolAddMemberFails(k) ==
  /\ last = NoResp
  /\ sess[k].pc = "created"
  /\ sess' = [sess EXCEPT ![k] = Stmt("memberFailed", sess[k].user, sess[k].row, "error")]
  /\ UNCHANGED <<schools, school_members, invitations, tone_profiles, content_drafts, superAdmins, super_admin_actions, now, last, retry>>

\* lines 233-237: DELETE FROM schools WHERE id = ..; what it returns is not
\* looked at, and memberError is thrown
createSchoolCleanup(k) ==
  /\ last = NoResp
  /\ sess[k].pc = "memberFailed"
  /\ LET c == sess[k].user
         s == sess[k].row.school_id IN
     /\ IF s \in schools /\ SchoolSelectPolicy(c, s) /\ SchoolDeletePolicy(c, s)
          THEN SchoolRowDeleted(s)
          ELSE UNCHANGED <<schools, school_members, invitations, tone_profiles, content_drafts>>
     /\ sess' = [sess EXCEPT ![k] = Done(c, sess[k].row, sess[k].verdict)]
     /\ last' = Resp("createSchool", c, s, NoUser, sess[k].verdict)
  /\ UNCHANGED <<superAdmins, super_admin_actions, now, retry>>

\* lines 233-237: the delete comes back with an error, which is not looked
\* at either
createSchoolCleanupFails(k) ==
  /\ last = NoResp
  /\ sess[k].pc = "memberFailed"
  /\ sess' = [sess EXCEPT ![k] = Done(sess[k].user, sess[k].row, sess[k].verdict)]
  /\ last' = Resp("createSchool", sess[k].user, sess[k].row.school_id, NoUser, sess[k].verdict)
  /\ UNCHANGED <<schools, school_members, invitations, tone_profiles, content_drafts, superAdmins, super_admin_actions, now, retry>>

\* lines 239-254: the caller has its answer
createSchoolReturn(k) ==
  /\ sess[k].pc = "done"
  /\ sess' = [sess EXCEPT ![k] = Idle]
  /\ UNCHANGED <<schools, school_members, invitations, tone_profiles, content_drafts, superAdmins, super_admin_actions, now, last, retry>>

\* ------------------------------ schools created, managed and deleted
NextSchool ==
  \/ Settle
  \/ \E c \in Users : SchoolInsert(c)
  \/ \E c \in Users, s \in Schools : fetchSchool(c, s)
  \/ \E c \in Users, s \in Schools : updateSchool(c, s)
  \/ \E c \in Users, s \in Schools : SchoolDelete(c, s)
  \/ \E c \in Users, s \in Schools : isAdminAsked(c, s)
  \/ \E c \in Users, s \in Schools, u \in Users, r \in Roles : MemberInsert(c, MemberRow(s, u, r))
  \/ \E c \in Users, m \in school_members, r \in Roles : updateMemberRole(c, m, r)
  \/ \E c \in Users, m \in school_members : removeMember(c, m)
  \/ \E c \in Users, s \in Schools : fetchMembers(c, s)
  \/ \E k \in Sessions, c \in Users : createSchoolInsert(k, c)
  \/ \E k \in Sessions : createSchoolAddMember(k)
  \/ \E k \in Sessions : createSchoolAddMemberFails(k)
  \/ \E k \in Sessions : createSchoolCleanup(k)
  \/ \E k \in Sessions : createSchoolCleanupFails(k)
  \/ \E k \in Sessions : createSchoolReturn(k)

SpecSchool == InitSchool /\ [][NextSchool]_vars

\* ------------------------------------------------- the query procedures
\* get_user_schools_direct(user_id_param): RAISE EXCEPTION 'Unauthorized'
\* unless the caller is the requested user or a super admin
RpcGetUserSchoolsDirect(c, u) ==
  /\ last = NoResp
  /\ LET rows == {m \in school_members : m.user_id = u} IN
     last' = Resp("get_user_schools_direct", c, "-", u,
                  IF ~ (c = u \/ is_super_admin(c)) THEN "denied"
                  ELSE IF rows = {} THEN "notfound" ELSE "ok")
  /\ UNCHANGED <<schools, school_members, invitations, tone_profiles, content_drafts, superAdmins, super_admin_actions, now, sess, retry>>

\* get_user_schools(user_id_param): LANGUAGE sql SECURITY DEFINER, the
\* memberships WHERE sm.user_id = user_id_param
RpcGetUserSchools(c, u) ==
  /\ last = NoResp
  /\ LET rows == {m \in school_members : m.user_id = u} IN
     last' = Resp("get_user_schools", c, "-", u, IF rows = {} THEN "notfound" ELSE "ok")
  /\ UNCHANGED <<schools, school_members, invitations, tone_profiles, content_drafts, superAdmins, super_admin_actions, now, sess, retry>>

\* get_all_schools_for_admin(): RAISE EXCEPTION unless is_super_admin()
RpcGetAllSchoolsForAdmin(c) ==
  /\ last = NoResp
  /\ last' = Resp("get_all_schools_for_admin", c, "-", NoUser,
                  IF ~ is_super_admin(c) THEN "denied"
                  ELSE IF schools = {} THEN "notfound" ELSE "ok")
  /\ UNCHANGED <<schools, school_members, invitations, tone_profiles, content_drafts, superAdmins, super_admin_actions, now, sess, retry>>

\* get_admin_statistics(): RAISE EXCEPTION unless is_super_admin(); the
\* counts otherwise
RpcGetAdminStatistics(c) ==
  /\ last = NoResp
  /\ last' = Resp("get_admin_statistics", c, "-", NoUser,
                  IF ~ is_super_admin(c) THEN "denied" ELSE "ok")
  /\ UNCHANGED <<schools, school_members, invitations, tone_profiles, content_drafts, superAdmins, super_admin_actions, now, sess, retry>>

\* the super admin store's fetchSchools: 'Permission denied: Not a super
\* admin' unless isSuperAdmin(), SELECT * FROM schools otherwise
fetchSchools(c) ==
  /\ last = NoResp
  /\ LET rows == {s \in schools : SchoolSelectPolicy(c, s)} IN
     last' = Resp("fetchSchools", c, "-", NoUser,
                  IF ~ is_super_admin(c) THEN "denied"
                  ELSE IF rows = {} THEN "notfound" ELSE "ok")
  /\ UNCHANGED <<schools, school_members, invitations, tone_profiles, content_drafts, superAdmins, super_admin_actions, now, sess, retry>>

\* -------------------------------- memberships and what the procedures show
NextFacade ==
  \/ Settle
  \/ \E c \in Users, s \in Schools, u \in Users, r \in Roles : MemberInsert(c, MemberRow(s, u, r))
  \/ \E c \in Users, m \in school_members : removeMember(c, m)
  \/ \E c \in Users, s \in Schools : createInvitation(c, s, Email["u1"], "member")
  \/ \E c \in Users, s \in Schools : ToneProfileInsert(c, s)
  \/ \E c \in Users, s \in Schools : RpcGetSchoolMembers(c, s)
  \/ \E c \in Users, s \in Schools : RpcGetSchoolInvitations(c, s)
  \/ \E c \in Users, s \in Schools : RpcGetToneProfiles(c, s)
  \/ \E c \in Users, u \in Users : RpcGetUserSchoolsDirect(c, u)
  \/ \E c \in Users, u \in Users : RpcGetUserSchools(c, u)
  \/ \E c \in Users : RpcGetAllSchoolsForAdmin(c)
  \/ \E c \in Users : RpcGetAdminStatistics(c)
  \/ \E c \in Users : fetchSchools(c)

SpecFacade == Init /\ [][NextFacade]_vars

\* ------------------------------------------- the super admin procedures
\* set_super_admin(user_email, is_admin, admin_user_id): SECURITY DEFINER;
\* UPDATE auth.users SET is_super_admin = is_admin, then the audit row under
\* COALESCE(admin_user_id, auth.uid(), target_user_id)
set_super_admin(c, u, is_admin, admin_user_id) ==
  /\ last = NoResp
  /\ Len(super_admin_actions) < MaxAudit
  /\ superAdmins' = IF is_admin THEN superAdmins \cup {u} ELSE superAdmins \ {u}
  /\ LET acting_admin_id == IF admin_user_id # NoUser THEN admin_user_id ELSE c IN
     super_admin_actions' =
       Append(super_admin_actions,
              AuditAction(acting_admin_id,
                          IF is_admin THEN "grant_super_admin" ELSE "revoke_super_admin",
                          u, "-"))
  /\ last' = Resp("set_super_admin", c, "-", u, "ok")
  /\ UNCHANGED <<schools, school_members, invitations, tone_profiles, content_drafts, now, sess, retry>>

\* the super admin store's toggleSuperAdmin(userEmail, makeAdmin):
\* 'Permission denied: Not a super admin' unless isSuperAdmin(), then
\* rpc('set_super_admin', { user_email, is_admin })
toggleSuperAdmin(c, u, makeAdmin) ==
  /\ last = NoResp
  /\ IF ~ is_super_admin(c)
       THEN /\ last' = Resp("toggleSuperAdmin", c, "-", u, "denied")
            /\ UNCHANGED <<superAdmins, super_admin_actions>>
       ELSE /\ Len(super_admin_actions) < MaxAudit
            /\ superAdmins' = IF makeAdmin THEN superAdmins \cup {u} ELSE superAdmins \ {u}
            /\ super_admin_actions' =
                 Append(super_admin_actions,
                        AuditAction(c, IF makeAdmin THEN "grant_super_admin" ELSE "revoke_super_admin",
                                    u, "-"))
            /\ last' = Resp("toggleSuperAdmin", c, "-", u, "ok")
  /\ UNCHANGED <<schools, school_members, invitations, tone_profiles, content_drafts, now, sess, retry>>

\* create_school_for_admin(school_name, school_website, is_admin): RAISE
\* EXCEPTION unless is_super_admin(), INSERT INTO schools, RETURN the id
create_school_for_admin(c) ==
  /\ last = NoResp
  /\ schools # Schools
  /\ IF ~ is_super_admin(c)
       THEN /\ last' = Resp("create_school_for_admin", c, FreshSchool, NoUser, "denied")
            /\ UNCHANGED schools
       ELSE /\ schools' = schools \cup {FreshSchool}
            /\ last' = Resp("create_school_for_admin", c, FreshSchool, NoUser, "ok")
  /\ UNCHANGED <<school_members, invitations, tone_profiles, content_drafts, superAdmins, super_admin_actions, now, sess, retry>>

\* create_school_as_admin(school_name, website, admin_email): RAISE EXCEPTION
\* unless is_super_admin(), INSERT INTO schools, the admin's membership when
\* admin_email is given, then the audit row
create_school_as_admin(c, admin) ==
  /\ last = NoResp
  /\ schools # Schools
  /\ IF ~ is_super_admin(c)
       THEN /\ last' = Resp("create_school_as_admin", c, FreshSchool, admin, "denied")
            /\ UNCHANGED <<schools, school_members, super_admin_actions>>
       ELSE /\ Len(super_admin_actions) < MaxAudit
            /\ admin # NoUser => Cardinality(school_members) < MaxMembers
            /\ schools' = schools \cup {FreshSchool}
            /\ school_members' =
                 IF admin # NoUser
                   THEN school_members \cup {MemberRow(FreshSchool, admin, "admin")}
                   ELSE school_members
            /\ super_admin_actions' =
                 Append(super_admin_actions, AuditAction(c, "create_school", NoUser, FreshSchool))
            /\ last' = Resp("create_school_as_admin", c, FreshSchool, admin, "ok")
  /\ UNCHANGED <<invitations, tone_profiles, content_drafts, superAdmins, now, sess, retry>>

\* add_user_to_school(user_email, school_id, role): RAISE EXCEPTION unless
\* is_super_admin() or is_school_admin(school_id), and when the user is a
\* member already; INSERT INTO school_members, then the audit row
add_user_to_school(c, u, s, role) ==
  /\ last = NoResp
  /\ s \in schools
  /\ IF ~ (is_super_admin(c) \/ is_school_admin(c, s))
       THEN /\ last' = Resp("add_user_to_school", c, s, u, "denied")
            /\ UNCHANGED <<school_members, super_admin_actions>>
       ELSE IF is_school_member(u, s)
       THEN /\ last' = Resp("add_user_to_school", c, s, u, "conflict")
            /\ UNCHANGED <<school_members, super_admin_actions>>
       ELSE /\ Len(super_admin_actions) < MaxAudit
            /\ Cardinality(school_members) < MaxMembers
            /\ school_members' = school_members \cup {MemberRow(s, u, role)}
            /\ super_admin_actions' =
                 Append(super_admin_actions, AuditAction(c, "add_user_to_school", u, s))
            /\ last' = Resp("add_user_to_school", c, s, u, "ok")
  /\ UNCHANGED <<schools, invitations, tone_profiles, content_drafts, superAdmins, now, sess, retry>>

\* ------------------------------------------- what the super admin page does
NextAdmin ==
  \/ Settle
  \/ \E c \in Users, u \in Users, b \in BOOLEAN, a \in Users \cup {NoUser} :
       set_super_admin(c, u, b, a)
  \/ \E c \in Users, u \in Users, b \in BOOLEAN : toggleSuperAdmin(c, u, b)
  \/ \E c \in Users : create_school_for_admin(c)
  \/ \E c \in Users, a \in Users \cup {NoUser} : create_school_as_admin(c, a)
  \/ \E c \in Users, u \in Users, s \in Schools, r \in Roles : add_user_to_school(c, u, s, r)

SpecAdmin == InitSchool /\ [][NextAdmin]_vars

\* ------------------------------------------------------- retryWithBackoff
\* error.message?.includes('rate limit') || ..includes('over_request_rate_limit')
\* || error.status === 429 || error.error?.status === 429 ||
\* error.body.includes('rate_limit')
isRateLimit(error) ==
  \/ error.message \in {"Request rate limit reached"}
  \/ error.message \in {"over_request_rate_limit"}
  \/ error.status = 429
  \/ error.errorStatus = 429
  \/ error.body \in {"rate_limit"}

\* the delay that stays as it is
sameDelay(delay) == delay

\* delay *= 2
nextDelay(delay) == delay * 2

\* let retries = 0; let delay = initialDelay; fn is one of the calls the auth
\* store wraps: supabase.auth.refreshSession and getSession, and the selects
\* of loadUserSchools
retryWithBackoff(fn) ==
  /\ retry = NoFrame
  /\ retry' = Frame("try", fn, 0, initialDelay, 0, <<>>, NoError)
  /\ UNCHANGED <<schools, school_members, invitations, tone_profiles, content_drafts, superAdmins, super_admin_actions, now, sess, last>>

\* while (retries < maxRetries) { try { return await fn() }
fnResolves ==
  /\ retry.pc = "try"
  /\ retry.retries < maxRetries
  /\ retry' = [retry EXCEPT !.pc = "returned", !.calls = @ + 1]
  /\ UNCHANGED <<schools, school_members, invitations, tone_profiles, content_drafts, superAdmins, super_admin_actions, now, sess, last>>

\* catch (error): a rate limit error counts a retry and is thrown when
\* retries >= maxRetries, waited for otherwise; any other error is thrown
fnRejects(error) ==
  /\ retry.pc = "try"
  /\ retry.retries < maxRetries
  /\ retry' =
       IF isRateLimit(error)
         THEN [retry EXCEPT !.pc = IF retry.retries + 1 >= maxRetries THEN "thrown" ELSE "waiting",
                            !.retries = @ + 1, !.calls = @ + 1, !.error = error]
         ELSE [retry EXCEPT !.pc = "thrown", !.calls = @ + 1, !.error = error]
  /\ UNCHANGED <<schools, school_members, invitations, tone_profiles, content_drafts, superAdmins, super_admin_actions, now, sess, last>>

\* await new Promise(resolve => setTimeout(resolve, delay)); delay *= 2;
\* continue
timeoutFires ==
  /\ retry.pc = "waiting"
  /\ retry' = [retry EXCEPT !.pc = "try", !.delay = nextDelay(@),
                            !.waits = Append(@, retry.delay)]
  /\ UNCHANGED <<schools, school_members, invitations, tone_profiles, content_drafts, superAdmins, super_admin_actions, now, sess, last>>

\* the caller has the result or the error; the next wrapped call starts afresh
callerContinues ==
  /\ retry.pc \in {"returned", "thrown"}
  /\ retry' = NoFrame
  /\ UNCHANGED <<schools, school_members, invitations, tone_profiles, content_drafts, superAdmins, super_admin_actions, now, sess, last>>

NextBackoff ==
  \/ \E fn \in {"auth.refreshSession", "auth.getSession", "from(schools)", "from(school_members)"} :
       retryWithBackoff(fn)
  \/ fnResolves
  \/ \E error \in {AuthError(429, "Request rate limit reached", 0, ""),
                    AuthError(0, "over_request_rate_limit", 0, ""),
                    AuthError(429, "Too Many Requests", 0, ""),
                    AuthError(0, "", 429, ""),
                    AuthError(0, "", 0, "rate_limit"),
                    AuthError(0, "Session expired. Please sign in again.", 0, ""),
                    AuthError(401, "JWT expired", 0, "")} :
       fnRejects(error)
  \/ timeoutFires
  \/ callerContinues

SpecBackoff == Init /\ [][NextBackoff]_vars

\* -------------------------------------- invitations sent by two sessions
\* an index without the constraint
NoUniqueIndex(row) == FALSE

\* UNIQUE(school_id, email): the index has an entry for the row's pair
invitations_school_id_email_key(row) ==
  \E i \in invitations : i.school_id = row.school_id /\ i.email = row.email

\* schoolStore.createInvitation, INSERT INTO invitations: the row is built
\* (email.toLowerCase().trim(), expires 7 days from now) and the WITH CHECK
\* is evaluated on the statement's snapshot; the verdict is "fresh" when it
\* passes and the snapshot has no row for the pair, "ok" when it passes
\* otherwise
createInvitationBegin(k, c, s, email, role) ==
  /\ last = NoResp
  /\ sess[k] = Idle
  /\ s \in schools
  /\ LET row == InvitationRow(0, s, toLowerCase(email), role, now + InvitationDays, Never) IN
     sess' = [sess EXCEPT ![k] =
       Stmt("invite", c, row,
            IF ~ InvitationWritePolicy(c, row) THEN "denied"
            ELSE IF ~ invitations_school_id_email_key(row) THEN "fresh" ELSE "ok")]
  /\ UNCHANGED <<schools, school_members, invitations, tone_profiles, content_drafts, superAdmins, super_admin_actions, now, last, retry>>

\* the row is written under its token unless the unique index has its pair:
\* 23505, 'An invitation has already been sent to this email'; two sessions
\* may insert one row more than invitations holds otherwise
createInvitationEnd(k) ==
  /\ last = NoResp
  /\ sess[k].pc = "invite"
  /\ LET c == sess[k].user
         row == sess[k].row IN
     IF sess[k].verdict = "denied"
       THEN /\ last' = Resp("createInvitation", c, row.school_id, NoUser, "denied")
            /\ UNCHANGED invitations
       ELSE IF invitations_school_id_email_key(row)
         THEN /\ last' = Resp("createInvitation", c, row.school_id, NoUser, "conflict")
              /\ UNCHANGED invitations
         ELSE /\ Cardinality(invitations) <= MaxInvitations
              /\ LET token == CHOOSE t \in 1..(MaxInvitations + 1) :
                                \A i \in invitations : i.token # t IN
                 invitations' = invitations \cup {[row EXCEPT !.token = token]}
              /\ last' = Resp("createInvitation", c, row.school_id, NoUser, "ok")
  /\ sess' = [sess EXCEPT ![k] = Idle]
  /\ UNCHANGED <<schools, school_members, tone_profiles, content_drafts, superAdmins, super_admin_actions, now, retry>>

NextInvite ==
  \/ Settle
  \/ \E c \in Users, s \in Schools, u \in Users : MemberInsert(c, MemberRow(s, u, "admin"))
  \/ \E k \in Sessions, c \in Users, s \in Schools, u \in Users :
       createInvitationBegin(k, c, s, Email[u], "member")
  \/ \E k \in Sessions : createInvitationEnd(k)
  \/ \E c \in Users, i \in invitations : deleteInvitation(c, i)

SpecInvite == Init /\ [][NextInvite]_vars

\* ------------------------- invitations of one school, accepted and revoked
NextRevoke ==
  \/ Settle
  \/ \E c \in Users, s \in InvitingSchools, u \in Users, r \in Roles :
       MemberInsert(c, MemberRow(s, u, r))
  \/ \E c \in Users, s \in InvitingSchools, u \in Users :
       createInvitation(c, s, Email[u], "member")
  \/ \E c \in Users, i \in invitations : deleteInvitation(c, i)
  \/ \E k \in Sessions, c \in Users, t \in Tokens : acceptLookup(k, c, t)
  \/ \E k \in Sessions : acceptInsertMember(k)
  \/ \E k \in Sessions : acceptMarkAccepted(k)
  \/ \E k \in Sessions : acceptMarkAcceptedFails(k)
  \/ \E k \in Sessions : acceptReturn(k)

SpecRevoke == Init /\ [][NextRevoke]_vars

\* ------------------------------ schools deleted with what belongs to them
NextCascade ==
  \/ Settle
  \/ \E c \in Users, u \in Users, s \in Schools : add_user_to_school(c, u, s, "admin")
  \/ \E c \in Users, s \in Schools : createInvitation(c, s, Email["u1"], "member")
  \/ \E c \in Users, s \in Schools : ToneProfileInsert(c, s)
  \/ \E c \in Users, s \in Schools, p \in ProfileIds : DraftInsert(c, s, p, c)
  \/ \E c \in Users, s \in Schools : SchoolDelete(c, s)

SpecCascade == Init /\ [][NextCascade]_vars

\* ------------------------------------------------ toneStore.deleteProfile
\* a table without the reference
NoForeignKey(t) == FALSE

\* content_drafts.tone_profile_id REFERENCES tone_profiles(id), no ON DELETE:
\* a draft, of whatever school and whether the caller can see it or not,
\* references the profile
content_drafts_tone_profile_id_fkey(t) ==
  \E d \in content_drafts : d.tone_profile_id = t.id

\* lines 396-415: SELECT school_id FROM tone_profiles WHERE id = ..single(),
\* then isAdmin(profile.school_id) on the signed-in user's schools
deleteProfileLookup(k, c, p) ==
  /\ last = NoResp
  /\ sess[k] = Idle
  /\ LET rows == {t \in tone_profiles : t.id = p /\ ToneProfileSelectPolicy(c, t)} IN
     IF rows = {}
       THEN /\ sess' = [sess EXCEPT ![k] = Done(c, ToneProfileRow(p, "-"), "notfound")]
            /\ last' = Resp("deleteProfile", c, "-", NoUser, "notfound")
       ELSE LET t == CHOOSE r \in rows : TRUE IN
            IF ~ isAdmin(is_super_admin(c), loadUserSchools(c), t.school_id)
              THEN /\ sess' = [sess EXCEPT ![k] = Done(c, ToneProfileRow(p, "-"), "denied")]
                   /\ last' = Resp("deleteProfile", c, t.school_id, NoUser, "denied")
              ELSE /\ sess' = [sess EXCEPT ![k] = Stmt("profile", c, t, "-")]
                   /\ UNCHANGED last
  /\ UNCHANGED <<schools, school_members, invitations, tone_profiles, content_drafts, superAdmins, super_admin_actions, now, retry>>

\* lines 417-429: SELECT count of content_drafts WHERE tone_profile_id = ..,
\* of the rows the policies show the caller; 'This tone profile is used in
\* .. content drafts and cannot be deleted'
deleteProfileCount(k) ==
  /\ last = NoResp
  /\ sess[k].pc = "profile"
  /\ LET c == sess[k].user
         t == sess[k].row
         count == Cardinality({d \in content_drafts :
                                 d.tone_profile_id = t.id /\ DraftSelectPolicy(c, d)}) IN
     IF count > 0
       THEN /\ sess' = [sess EXCEPT ![k] = Done(c, ToneProfileRow(t.id, "-"), "inuse")]
            /\ last' = Resp("deleteProfile", c, t.school_id, NoUser, "inuse")
       ELSE /\ sess' = [sess EXCEPT ![k] = Stmt("counted", c, t, "-")]
            /\ UNCHANGED last
  /\ UNCHANGED <<schools, school_members, invitations, tone_profiles, content_drafts, superAdmins, super_admin_actions, now, retry>>

\* lines 431-445: DELETE FROM tone_profiles WHERE id = ..; no row passes the
\* policies: nothing deleted and no error; a draft references it: 23503
deleteProfileDelete(k) ==
  /\ last = NoResp
  /\ sess[k].pc = "counted"
  /\ LET c == sess[k].user
         p == sess[k].row.id
         rows == {t \in tone_profiles :
                    t.id = p /\ ToneProfileSelectPolicy(c, t) /\ ToneProfileWritePolicy(c, t)} IN
     IF \E t \in rows : content_drafts_tone_profile_id_fkey(t)
       THEN /\ sess' = [sess EXCEPT ![k] = Done(c, ToneProfileRow(p, "-"), "conflict")]
            /\ last' = Resp("deleteProfile", c, sess[k].row.school_id, NoUser, "conflict")
            /\ UNCHANGED tone_profiles
       ELSE /\ tone_profiles' = tone_profiles \ rows
            /\ sess' = [sess EXCEPT ![k] = Done(c, ToneProfileRow(p, "-"), "ok")]
            /\ last' = Resp("deleteProfile", c, sess[k].row.school_id, NoUser, "ok")
  /\ UNCHANGED <<schools, school_members, invitations, content_drafts, superAdmins, super_admin_actions, now, retry>>

\* ----------------------------- tone profiles and the drafts that use them
\* one session deletes profiles; drafts are saved around it
NextTone ==
  \/ Settle
  \/ \E c \in Users, s \in Schools, u \in Users, r \in Roles : MemberInsert(c, MemberRow(s, u, r))
  \/ \E c \in Users, s \in Schools : ToneProfileInsert(c, s)
  \/ \E c \in Users, s \in Schools, p \in ProfileIds : DraftInsert(c, s, p, c)
  \/ \E c \in Users, d \in content_drafts : DraftDelete(c, d)
  \/ \E k \in {"k1"}, c \in Users, p \in ProfileIds : deleteProfileLookup(k, c, p)
  \/ \E k \in {"k1"} : deleteProfileCount(k)
  \/ \E k \in {"k1"} : deleteProfileDelete(k)
  \/ \E k \in {"k1"} : acceptReturn(k)

SpecTone == Init /\ [][NextTone]_vars

\* ------------------------------------- tone profiles read and written
NextProfiles ==
  \/ Settle
  \/ \E c \in Users, s \in Schools, u \in Users, r \in Roles : MemberInsert(c, MemberRow(s, u, r))
  \/ \E c \in Users, s \in Schools : ToneProfileInsert(c, s)
  \/ \E c \in Users, t \in tone_profiles : ToneProfileUpdate(c, t)
  \/ \E c \in Users, t \in tone_profiles : ToneProfileDelete(c, t)
  \/ \E c \in Users, s \in Schools : ToneProfileSelect(c, s)
  \/ \E c \in Users, s \in Schools : RpcGetToneProfiles(c, s)

SpecProfiles == Init /\ [][NextProfiles]_vars

\* ------------------------------- row security of school_members, expanded
\* the relations of the statements and of the policies' inline subqueries
\* that have row security enabled; what a SECURITY DEFINER function reads is
\* not among them, and users has no policy
RowSecurity == {"school_members", "invitations"}

\* the policies on school_members a migration leaves behind, "pale_hall"
\* standing for the table after the last of them, and the policies on
\* invitations, the same after every migration: <<name, commands, relations
\* of the inline subqueries of USING and WITH CHECK>>. is_school_admin and
\* school_has_members of dry_hill are SECURITY DEFINER, and the list of
\* policies pale_hall drops has none of the sm_ policies
Policies(m, rel) ==
  LET Commands == {"SELECT", "INSERT", "UPDATE", "DELETE"}
      silver_hat ==
        { <<"Users can read school members for their schools", {"SELECT"}, {"school_members"}>>,
          <<"Admins can manage school members", Commands, {"school_members"}>> }
      part_017 ==
        { <<"Users can read their own memberships", {"SELECT"}, {}>>,
          <<"Admins can read all school members", {"SELECT"}, {"school_members"}>>,
          <<"Admins can update school members", {"UPDATE"}, {"school_members"}>>,
          <<"Admins can delete school members", {"DELETE"}, {"school_members"}>>,
          <<"Users can create initial admin or admins can add members", {"INSERT"},
            {"school_members"}>> }
      dry_hill ==
        { <<"sm_view_own_20250411", {"SELECT"}, {}>>,
          <<"sm_create_first_admin_20250411", {"INSERT"}, {}>>,
          <<"sm_admin_add_members_20250411", {"INSERT"}, {}>>,
          <<"sm_admin_view_members_20250411", {"SELECT"}, {}>>,
          <<"sm_admin_update_members_20250411", {"UPDATE"}, {}>>,
          <<"sm_admin_delete_members_20250411", {"DELETE"}, {}>> }
      pale_hall ==
        dry_hill \cup
        { <<"Users can view own memberships", {"SELECT"}, {}>>,
          <<"Admins can view school members", {"SELECT"}, {"school_members"}>>,
          <<"Create school membership", {"INSERT"}, {"school_members"}>>,
          <<"Update school membership", {"UPDATE"}, {"school_members"}>>,
          <<"Delete school membership", {"DELETE"}, {"school_members"}>>,
          <<"Super admins can manage all school members", Commands, {"users"}>> }
      invitationPolicies ==
        { <<"Admins can manage invitations", Commands, {"school_members"}>>,
          <<"Users can read their own invitations", {"SELECT"}, {}>>,
          <<"Super admins can manage all invitations", Commands, {}>> }
  IN CASE rel = "invitations" -> invitationPolicies
       [] m = "silver_hat" -> silver_hat
       [] m = "part_017" -> part_017
       [] m = "dry_hill" -> dry_hill
       [] m = "pale_hall" -> pale_hall

\* the relations the policies for a command on relation rel read inline
Subqueries(m, rel, cmd) == UNION {p[3] : p \in {q \in Policies(m, rel) : cmd \in q[2]}}

\* a statement on relation rel arrives at a database migrated up to m: its
\* policies are added to the query, and the relations of their subqueries
\* are still to be expanded. The statement holds the relations under
\* expansion, innermost last, each with what is left of its subqueries
expandBegin(k, c, m, rel, cmd) ==
  /\ last = NoResp
  /\ sess[k] = Idle
  /\ sess' = [sess EXCEPT ![k] =
       Stmt("expand", c, <<<<rel, Subqueries(m, rel, cmd)>>>>, m)]
  /\ UNCHANGED <<schools, school_members, invitations, tone_profiles, content_drafts, superAdmins, super_admin_actions, now, last, retry>>

\* one relation of one subquery: without row security it is read as it is;
\* under expansion already: 42P17, 'infinite recursion detected in policy for
\* relation'; otherwise its SELECT policies are added and expanded in turn.
\* The answer names the migration and the relation of the statement
expandSubquery(k) ==
  /\ last = NoResp
  /\ sess[k].pc = "expand"
  /\ LET stack == sess[k].row
         n == Len(stack)
         top == stack[n] IN
     /\ top[2] # {}
     /\ \E r \in top[2] :
          LET rest == [stack EXCEPT ![n] = <<top[1], top[2] \ {r}>>] IN
          IF r \notin RowSecurity
            THEN /\ sess' = [sess EXCEPT ![k].row = rest]
                 /\ UNCHANGED last
            ELSE IF \E i \in 1..n : stack[i][1] = r
              THEN /\ sess' = [sess EXCEPT ![k] = Idle]
                   /\ last' = Resp("expand", sess[k].user, sess[k].verdict, stack[1][1], "recursion")
              ELSE /\ sess' = [sess EXCEPT ![k].row =
                         Append(rest, <<r, Subqueries(sess[k].verdict, r, "SELECT")>>)]
                   /\ UNCHANGED last
  /\ UNCHANGED <<schools, school_members, invitations, tone_profiles, content_drafts, superAdmins, super_admin_actions, now, retry>>

\* the innermost relation has no subquery left: the expansion goes on with
\* the one around it, and the statement is planned when none is left
expandReturn(k) ==
  /\ last = NoResp
  /\ sess[k].pc = "expand"
  /\ LET stack == sess[k].row
         n == Len(stack) IN
     /\ stack[n][2] = {}
     /\ IF n = 1
          THEN /\ sess' = [sess EXCEPT ![k] = Idle]
               /\ last' = Resp("expand", sess[k].user, sess[k].verdict, stack[1][1], "ok")
          ELSE /\ sess' = [sess EXCEPT ![k].row = SubSeq(stack, 1, n - 1)]
               /\ UNCHANGED last
  /\ UNCHANGED <<schools, school_members, invitations, tone_profiles, content_drafts, superAdmins, super_admin_actions, now, retry>>

NextPolicy ==
  \/ Settle
  \/ \E k \in Sessions, c \in Users, m \in {"silver_hat", "part_017", "dry_hill", "pale_hall"},
          rel \in RowSecurity, cmd \in {"SELECT", "INSERT", "UPDATE", "DELETE"} :
       expandBegin(k, c, m, rel, cmd)
  \/ \E k \in Sessions : expandSubquery(k)
  \/ \E k \in Sessions : expandReturn(k)

SpecPolicy == Init /\ [][NextPolicy]_vars

\* ------------------------------------------------ authStore, per session
\* what a lookup of loadUserSchools comes back with instead of rows
LookupErrors ==
  {AuthError(0, "JWT expired", 0, ""),
   AuthError(0, "invalid token", 0, ""),
   AuthError(401, "Unauthorized", 0, ""),
   AuthError(429, "Request rate limit reached", 0, ""),
   AuthError(0, "function does not exist", 0, ""),
   AuthError(500, "Internal Server Error", 0, "")}

\* error.message?.includes('JWT expired') || ..includes('invalid token') ||
\* error.status === 401
isAuthError(error) ==
  \/ error.message \in {"JWT expired"}
  \/ error.message \in {"invalid token"}
  \/ error.status = 401

\* a catch that does not know the message the lookups throw on
withoutSessionExpired(error) ==
  \/ error.message \in {"JWT expired"}
  \/ error.message \in {"invalid token"}
  \/ error.status = 401

\* the test of the outer catch: the same with 'Session expired' added
isSessionError(error) ==
  \/ error.message \in {"JWT expired"}
  \/ error.message \in {"Session expired. Please sign in again."}
  \/ error.message \in {"invalid token"}
  \/ error.status = 401

\* userSchools[0] of a list ordered by name
firstSchool(userSchools) ==
  CHOOSE x \in userSchools : x[1] = "s1" \/ \A y \in userSchools : y[1] # "s1"

\* signIn, lines 322-358: supabase.auth.signInWithPassword, then set({ user })
\* with schools: [] and isSuperAdmin from the token's app_metadata, and
\* loadUserSchools is started and not waited for; currentSchool is null in
\* a new store and after a sign-out
signIn(k, c) ==
  /\ sess[k].pc \in {"idle", "ready"}
  /\ sess[k].pc = "ready" => sess[k].user = NoUser
  /\ sess' = [sess EXCEPT ![k] =
       AuthStore(IF is_super_admin(c) THEN "super" ELSE "direct", c, NoError,
                 is_super_admin(c), {}, NoSchool, TRUE)]
  /\ UNCHANGED <<schools, school_members, invitations, tone_profiles, content_drafts, superAdmins, super_admin_actions, now, last, retry>>

\* loadUserSchools, lines 360-378, as createSchool and acceptInvitation call
\* it: if (!user) return; set({ isLoadingSchools: true }); the session is
\* refreshed, and the lookup that follows is the listing of all schools for
\* a super admin, get_user_schools_direct for the others
loadUserSchoolsBegin(k) ==
  /\ sess[k].pc = "ready"
  /\ sess[k].user # NoUser
  /\ sess' = [sess EXCEPT ![k] =
       [@ EXCEPT !.pc = IF sess[k].isSuperAdmin THEN "super" ELSE "direct",
                 !.error = NoError, !.isLoadingSchools = TRUE]]
  /\ UNCHANGED <<schools, school_members, invitations, tone_profiles, content_drafts, superAdmins, super_admin_actions, now, last, retry>>

\* set(state => ({ user: { ...state.user, schools: userSchools },
\* currentSchool: state.currentSchool || (userSchools.length > 0 ?
\* userSchools[0] : null), isLoadingSchools: false }))
schoolsLoaded(store, userSchools) ==
  [store EXCEPT !.pc = "ready", !.error = NoError, !.schools = userSchools,
                !.currentSchool = IF @ # NoSchool THEN @
                                  ELSE IF userSchools # {} THEN firstSchool(userSchools)
                                  ELSE NoSchool,
                !.isLoadingSchools = FALSE]

\* the outer catch, lines 588-607: await get().signOut(); set({ user: null,
\* currentSchool: null, isLoadingSchools: false }) for a session error,
\* set({ isLoadingSchools: false }) for any other; an auth error reaches it
\* as new Error('Session expired. Please sign in again.')
caught(store, error) ==
  IF isSessionError(IF isAuthError(error)
                      THEN AuthError(0, "Session expired. Please sign in again.", 0, "")
                      ELSE error)
    THEN AuthStore("ready", NoUser, error, FALSE, {}, NoSchool, FALSE)
    ELSE [store EXCEPT !.pc = "ready", !.error = error, !.isLoadingSchools = FALSE]

\* lines 380-417: SELECT id, name FROM schools inside retryWithBackoff, every
\* school with role 'admin'
lookupSuperAdmin(k, error) ==
  /\ sess[k].pc = "super"
  /\ sess' = [sess EXCEPT ![k] =
       IF error = NoError
         THEN schoolsLoaded(@, {<<s, "admin">> : s \in {x \in schools : SchoolSelectPolicy(sess[k].user, x)}})
         ELSE caught(@, error)]
  /\ UNCHANGED <<schools, school_members, invitations, tone_profiles, content_drafts, superAdmins, super_admin_actions, now, last, retry>>

\* lines 425-464 and 466-508: rpc('get_user_schools_direct'), then
\* rpc('get_user_schools'): the rows are taken when there is no error; an
\* auth error is thrown on, and with any other error the next lookup is tried
lookupRpc(k, error) ==
  /\ sess[k].pc \in {"direct", "rpc"}
  /\ sess' = [sess EXCEPT ![k] =
       IF error = NoError
         THEN schoolsLoaded(@, {<<m.school_id, m.role>> : m \in {x \in school_members : x.user_id = sess[k].user}})
         ELSE IF isAuthError(error)
           THEN caught(@, error)
           ELSE [@ EXCEPT !.pc = IF sess[k].pc = "direct" THEN "rpc" ELSE "fallback",
                          !.error = error]]
  /\ UNCHANGED <<schools, school_members, invitations, tone_profiles, content_drafts, superAdmins, super_admin_actions, now, last, retry>>

\* lines 510-587: SELECT school_id, role FROM school_members WHERE user_id =
\* .., and when it has rows SELECT id, name FROM schools WHERE id IN (..),
\* each inside retryWithBackoff; without a membership currentSchool is null
lookupFallback(k, error) ==
  /\ sess[k].pc = "fallback"
  /\ LET c == sess[k].user
         membershipsResult == {m \in school_members : m.user_id = c /\ MemberSelectPolicy(c, m)}
         schoolsResult == {m \in membershipsResult : SchoolSelectPolicy(c, m.school_id)} IN
     sess' = [sess EXCEPT ![k] =
       IF error # NoError THEN caught(@, error)
       ELSE IF membershipsResult = {}
         THEN [@ EXCEPT !.pc = "ready", !.error = NoError, !.schools = {},
                        !.currentSchool = NoSchool,
                        !.isLoadingSchools = FALSE]
         ELSE schoolsLoaded(@, {<<m.school_id, m.role>> : m \in schoolsResult})]
  /\ UNCHANGED <<schools, school_members, invitations, tone_profiles, content_drafts, superAdmins, super_admin_actions, now, last, retry>>

\* App.tsx AdminRoute: the children are rendered when isAdmin(schoolId) of
\* the store says so, a redirect to the dashboard otherwise
AdminRoute(k, schoolId) ==
  /\ last = NoResp
  /\ sess[k].pc # "idle"
  /\ sess[k].user # NoUser
  /\ last' = Resp("AdminRoute", sess[k].user, schoolId, NoUser,
                  IF isAdmin(sess[k].isSuperAdmin, sess[k].schools, schoolId)
                    THEN "ok" ELSE "denied")
  /\ UNCHANGED <<schools, school_members, invitations, tone_profiles, content_drafts, superAdmins, super_admin_actions, now, sess, retry>>

\* MainLayout, lines 53-83: the school of the route is made the current one
\* when user.schools has it; a route to a school that is not in a list with
\* entries is redirected to the first entry
MainLayout(k, schoolId) ==
  /\ sess[k].pc # "idle"
  /\ sess[k].schools # {}
  /\ LET route == IF \E x \in sess[k].schools : x[1] = schoolId
                    THEN schoolId ELSE firstSchool(sess[k].schools)[1]
         requestedSchool == CHOOSE x \in sess[k].schools : x[1] = route IN
     /\ sess[k].currentSchool[1] # route
     /\ sess' = [sess EXCEPT ![k].currentSchool = requestedSchool]
  /\ UNCHANGED <<schools, school_members, invitations, tone_profiles, content_drafts, superAdmins, super_admin_actions, now, last, retry>>

\* -------------------------- a signed-in session while memberships change
\* one session is signed in; the memberships are changed around it
NextAuth ==
  \/ Settle
  \/ \E c \in Users, s \in Schools, u \in Users, r \in Roles : MemberInsert(c, MemberRow(s, u, r))
  \/ \E c \in Users, m \in school_members, r \in Roles : updateMemberRole(c, m, r)
  \/ \E c \in Users, m \in school_members : removeMember(c, m)
  \/ \E k \in {"k1"}, c \in Users : signIn(k, c)
  \/ \E k \in {"k1"} : loadUserSchoolsBegin(k)
  \/ \E k \in {"k1"}, error \in LookupErrors \cup {NoError} : lookupSuperAdmin(k, error)
  \/ \E k \in {"k1"}, error \in LookupErrors \cup {NoError} : lookupRpc(k, error)
  \/ \E k \in {"k1"}, error \in LookupErrors \cup {NoError} : lookupFallback(k, error)
  \/ \E k \in {"k1"}, s \in Schools : AdminRoute(k, s)
  \/ \E k \in {"k1"}, s \in Schools : MainLayout(k, s)

SpecAuth == Init /\ [][NextAuth]_vars

\* ======================================================= properties (Spec)

SelfProtection ==
  [][ (last' # NoResp /\ last'.op \in {"updateMemberRole", "removeMember"}) =>
        LET c == last'.caller
            s == last'.school_id IN
        (is_school_admin(c, s) /\ ~ is_super_admin(c) /\ last'.target = c) =>
          last'.status # "ok"
    ]_vars

\* C4. Bootstrap rule: when a caller who is neither an admin of school S
\* nor a super admin gets a school_members row of S inserted, the row's
\* user_id is the caller, its role is admin and S had no membership before.
BootstrapRule ==
  [][ (last' # NoResp /\ last'.op = "MemberInsert") =>
        LET c == last'.caller
            s == last'.school_id IN
        (~ is_school_admin(c, s) /\ ~ is_super_admin(c)) =>
          /\ last'.status = "ok" =>
               /\ ~ school_has_members(s)
               /\ \A m \in school_members' \ school_members :
                    m.user_id = c /\ m.role = "admin"
          /\ last'.status # "ok" => school_members' = school_members
    ]_vars

SingleFirstAdmin ==
  [][ \A k \in Sessions :
        (sess[k].pc = "insert" /\ sess'[k] = Idle /\ sess[k].verdict = "first") =>
          LET c == sess[k].user
              row == sess[k].row IN
          (row.user_id = c /\ row.role = "admin") =>
            IF school_has_members(row.school_id)
              THEN last'.status = "conflict" /\ school_members' = school_members
              ELSE last'.status = "ok" /\ school_members' = school_members \cup {row}
    ]_vars

\* C5. Admin invariant: a role change or removal made by a user who is not
\* a super admin, in a school that has an admin, never leaves the school
\* with memberships but without an admin.
AdminInvariant ==
  [][ (last' # NoResp /\ last'.op \in {"updateMemberRole", "removeMember"}
         /\ ~ is_super_admin(last'.caller)) =>
        LET s == last'.school_id IN
        (\E m \in school_members : m.school_id = s /\ m.role = "admin") =>
          ((\E m \in school_members' : m.school_id = s) =>
             (\E m \in school_members' : m.school_id = s /\ m.role = "admin"))
    ]_vars


\* ================================================= properties (SpecSchool)

CreateSchoolCompensation ==
  [][ \A k \in Sessions :
        (sess[k].pc = "memberFailed" /\ sess'[k].pc = "done") =>
          sess[k].row.school_id \notin schools'
    ]_vars

\* C14. Compensation failures are not silent: when createSchool finishes
\* after a failed membership insert and its school row is still there, the
\* caller is given something other than the membership insert's error.
CompensationFailureReported ==
  [][ \A k \in Sessions :
        (/\ sess[k].pc = "memberFailed" /\ sess'[k].pc = "done"
         /\ sess[k].row.school_id \in schools') =>
          sess'[k].verdict # sess[k].verdict
    ]_vars

\* ================================================= properties (SpecFacade)
\* C15. A facade call (list members, list invitations, list tone profiles,
\* list all schools, admin statistics) whose authorization test fails is
\* answered with a permission error, never with an empty result.
DeniedFacadeCallsRaise ==
  [][ LET FacadeOps ==
            {"get_school_members", "get_school_invitations", "get_tone_profiles",
             "get_all_schools_for_admin", "get_admin_statistics", "fetchSchools"}
          \* the condition each facade operation tests on its caller
          FacadeAuthorized(op, c, s) ==
            CASE op \in {"get_school_members", "get_tone_profiles"} ->
                   is_school_member(c, s) \/ is_super_admin(c)
              [] op = "get_school_invitations" ->
                   is_school_admin(c, s) \/ is_super_admin(c)
              [] OTHER -> is_super_admin(c)
      IN (/\ last'.op \in FacadeOps
          /\ ~ FacadeAuthorized(last'.op, last'.caller, last'.school_id))
           => last'.status = "denied" ]_vars

\* C16. get_school_members returns member rows only to an admin of the
\* school or a super admin; a plain member and a non-member get none.
ListMembersAuthorization ==
  [][ (/\ last'.op = "get_school_members"
       /\ last'.status = "ok")
        => \/ is_school_admin(last'.caller, last'.school_id)
           \/ is_super_admin(last'.caller) ]_vars

\* C17. get_user_schools_direct and get_user_schools return the schools of
\* the requested user only when that user is the caller or the caller is a
\* super admin; for any other requested user they fail.
ListSchoolsForCallerAuthorization ==
  [][ (/\ last'.op \in {"get_user_schools_direct", "get_user_schools"}
       /\ last'.target # last'.caller
       /\ ~ is_super_admin(last'.caller))
        => last'.status = "denied" ]_vars

\* ================================================== properties (SpecAdmin)
\* C18. The super admin flag of a user changes only by a call of a caller
\* who is a super admin at that moment; a call to set the flag by any other
\* caller fails and leaves every flag as it was.
SetSuperAdminAuthorization ==
  [][ /\ superAdmins' # superAdmins => is_super_admin(last'.caller)
      /\ (/\ last'.op \in {"set_super_admin", "toggleSuperAdmin"}
          /\ ~ is_super_admin(last'.caller))
           => /\ last'.status = "denied"
              /\ superAdmins' = superAdmins ]_vars

\* C19. Every privileged super admin operation that succeeds (granting or
\* revoking super admin, creating a school, adding a user to a school)
\* appends a super_admin_actions row describing it.
AuditCompleteness ==
  [][ LET PrivilegedOps ==
            {"set_super_admin", "toggleSuperAdmin", "create_school_for_admin",
             "create_school_as_admin", "add_user_to_school"}
          ActionTypes(op) ==
            CASE op \in {"set_super_admin", "toggleSuperAdmin"} ->
                   {"grant_super_admin", "revoke_super_admin"}
              [] op \in {"create_school_for_admin", "create_school_as_admin"} -> {"create_school"}
              [] OTHER -> {op}
      IN (last'.op \in PrivilegedOps /\ last'.status = "ok")
           => /\ Len(super_admin_actions') = Len(super_admin_actions) + 1
              /\ SubSeq(super_admin_actions', 1, Len(super_admin_actions)) = super_admin_actions
              /\ super_admin_actions'[Len(super_admin_actions')].action_type
                    \in ActionTypes(last'.op) ]_vars

\* ================================================ properties (SpecBackoff)
\* C20. retryWithBackoff never invokes the wrapped call more than 5 times;
\* when the call keeps failing with rate limit errors it is invoked exactly
\* 5 times, with waits of 1s, 2s, 4s and 8s between the attempts, and the
\* last rate limit error is thrown.
BoundedBackoff ==
  /\ retry.calls <= 5
  /\ retry.waits = SubSeq(<<1000, 2000, 4000, 8000>>, 1, Len(retry.waits))
  /\ (retry.pc = "thrown" /\ isRateLimit(retry.error)) =>
       /\ retry.calls = 5
       /\ retry.waits = <<1000, 2000, 4000, 8000>>
  /\ retry.pc = "waiting" => (retry.calls < 5 /\ isRateLimit(retry.error))

\* a wrapped call has failed with rate limit errors five times and the
\* helper has thrown
BoundedBackoffWitness ==
  /\ retry.pc = "thrown"
  /\ isRateLimit(retry.error)
  /\ retry.calls = 5
  /\ Len(retry.waits) = 4

\* ================================================= properties (SpecInvite)
\* C21. There is at most one invitations row per (school, email) pair; a
\* createInvitation for a pair that has a row already, issued by a caller
\* the policies let insert, is answered with a conflict and changes nothing,
\* also when the row was written while the call was under way.
InvitationUniqueness ==
  [][ /\ \A i, j \in invitations' :
           (i.school_id = j.school_id /\ i.email = j.email) => i = j
      /\ \A k \in Sessions :
           (/\ sess[k].pc = "invite"
            /\ sess'[k] = Idle
            /\ sess[k].verdict \in {"ok", "fresh"}
            /\ \E i \in invitations :
                 i.school_id = sess[k].row.school_id /\ i.email = sess[k].row.email)
             => /\ last'.op = "createInvitation"
                /\ last'.status = "conflict"
                /\ invitations' = invitations ]_vars

\* a createInvitation that began when its pair had no row is still under
\* way, and another session has written a row for the pair meanwhile
InvitationUniquenessWitness ==
  \E k \in Sessions :
    /\ sess[k].pc = "invite"
    /\ sess[k].verdict = "fresh"
    /\ \E i \in invitations :
         i.school_id = sess[k].row.school_id /\ i.email = sess[k].row.email

\* ================================================= properties (SpecRevoke)
\* C22. Once an admin has deleted a pending invitation, no acceptInvitation
\* call for its token creates a membership: the call that inserts into
\* school_members does so while the invitation it read is still there.
RevocationIsTerminal ==
  [][ \A k \in Sessions :
        (/\ sess[k].pc = "found"
         /\ sess'[k].pc = "inserted"
         /\ school_members' # school_members)
          => sess[k].row \in invitations ]_vars

\* C25. Once accepted_at of an invitation is set, no later operation of an
\* admin of its school changes or removes the row.
AcceptedInvitationsImmutable ==
  [][ \A i \in invitations :
        (i.accepted_at # Never /\ is_school_admin(last'.caller, i.school_id))
          => i \in invitations' ]_vars

\* ================================================ properties (SpecCascade)
\* C23. Deleting a school succeeds and removes, in the same step, every
\* membership, invitation, tone profile and draft of the school; no row
\* references a school that is gone.
CascadeOnSchoolDeletion ==
  [][ /\ \A s \in schools :
           (/\ last'.op = "SchoolDelete"
            /\ last'.school_id = s
            /\ SchoolSelectPolicy(last'.caller, s)
            /\ SchoolDeletePolicy(last'.caller, s))
             => /\ last'.status = "ok"
                /\ s \notin schools'
      /\ \A m \in school_members' : m.school_id \in schools'
      /\ \A i \in invitations' : i.school_id \in schools'
      /\ \A t \in tone_profiles' : t.school_id \in schools'
      /\ \A d \in content_drafts' : d.school_id \in schools' ]_vars

\* =============================================== properties (SpecProfiles)
\* C24. Every member of a school can read its tone profiles; a member who
\* is neither an admin of the school nor a super admin never inserts,
\* updates or deletes one of them.
ToneProfileMutability ==
  [][ /\ (/\ last'.op \in {"ToneProfileSelect", "get_tone_profiles"}
          /\ \E m \in school_members :
               m.user_id = last'.caller /\ m.school_id = last'.school_id
          /\ \E t \in tone_profiles : t.school_id = last'.school_id)
           => last'.status = "ok"
      /\ (/\ last'.op \in {"ToneProfileInsert", "ToneProfileUpdate", "ToneProfileDelete"}
          /\ \E m \in school_members :
               /\ m.user_id = last'.caller
               /\ m.school_id = last'.school_id
               /\ m.role = "member"
          /\ last'.caller \notin superAdmins)
           => /\ last'.status # "ok"
              /\ tone_profiles' = tone_profiles ]_vars

\* a plain member of a school that has a tone profile has just been refused
\* a write to it
ToneProfileMutabilityWitness ==
  /\ last.op \in {"ToneProfileUpdate", "ToneProfileDelete"}
  /\ last.status = "notfound"
  /\ last.caller \notin superAdmins
  /\ \E m \in school_members :
       m.user_id = last.caller /\ m.school_id = last.school_id /\ m.role = "member"
  /\ \E t \in tone_profiles : t.school_id = last.school_id

\* =================================================== properties (SpecTone)
\* C30. deleteProfile never removes a tone profile that a draft references,
\* and no draft references a tone profile that is gone, also when a draft
\* for the profile is saved between the count and the delete.
ProfileDeletionVsDrafts ==
  [][ /\ \A t \in tone_profiles :
           (t \notin tone_profiles') =>
             ~ \E d \in content_drafts : d.tone_profile_id = t.id
      /\ \A d \in content_drafts' :
           \E t \in tone_profiles' : t.id = d.tone_profile_id ]_vars

\* a deleteProfile call that had counted no draft has just been refused the
\* delete, because a draft saved meanwhile references the profile
ProfileDeletionVsDraftsWitness ==
  /\ last.op = "deleteProfile"
  /\ last.status = "conflict"
  /\ \E d \in content_drafts, t \in tone_profiles : d.tone_profile_id = t.id

\* ================================================= properties (SpecPolicy)
\* C28: whatever migration the database is at and whatever the command, the
\* expansion of the policies of a statement on school_members comes to an end
\* without meeting school_members inside one of its own policies: no
\* statement is answered with 42P17.
PolicyEvaluationTerminates ==
  last.op = "expand" => last.status = "ok"

\* =================================================== properties (SpecAuth)
\* C26: when the admin route of school s is opened to a user who is not a
\* super admin, school_members has at that moment a row (user, s, admin).
NoStaleAdminFlag ==
  (last.op = "AdminRoute" /\ last.status = "ok" /\ ~ is_super_admin(last.caller))
    => is_school_admin(last.caller, last.school_id)

\* C27: a loadUserSchools whose lookup came back with an authentication
\* error (JWT expired, invalid token, 401) has ended with the store signed
\* out: user null, no school list, currentSchool null, isLoadingSchools false.
UnauthenticatedEndsInSignOut ==
  \A k \in {"k1"} :
    (/\ sess[k].pc = "ready"
     /\ \/ sess[k].error.message \in {"JWT expired", "invalid token"}
        \/ sess[k].error.status = 401)
      => /\ sess[k].user = NoUser
         /\ sess[k].schools = {}
         /\ sess[k].currentSchool = NoSchool
         /\ ~ sess[k].isLoadingSchools

\* C27, witness: a lookup came back with 'JWT expired' while the user had
\* a membership to load, and the store is signed out
UnauthenticatedEndsInSignOutWitness ==
  \E k \in {"k1"} :
    /\ sess[k].pc = "ready"
    /\ sess[k].error = AuthError(0, "JWT expired", 0, "")
    /\ sess[k].user = NoUser
    /\ \E m \in school_members : ~ is_super_admin(m.user_id)

\* C29: when loadUserSchools ends without an error, currentSchool is null or
\* the school of one of the entries of user.schools.
CurrentSchoolConsistency ==
  [][\A k \in {"k1"} :
       (/\ sess[k].pc \in {"super", "direct", "rpc", "fallback"}
        /\ sess'[k].pc = "ready"
        /\ sess'[k].error = NoError)
         => \/ sess'[k].currentSchool = NoSchool
            \/ \E x \in sess'[k].schools : x[1] = sess'[k].currentSchool[1]]_vars

\* ================================================= properties (SpecAccept)

\* C6. Idempotent acceptance: of two finished acceptInvitation calls by the
\* same user with the same token, where one got past the lookup and the
\* email comparison and the other did too or was answered "invalid" for an
\* invitation that is accepted, exactly one created the membership, exactly
\* one ended "ok", and the other ended "invalid" or "conflict".
IdempotentAcceptance ==
  \A j \in Sessions, k \in Sessions :
    (/\ j # k
     /\ sess[j].pc = "done" /\ sess[k].pc = "done"
     /\ sess[j].user = sess[k].user
     /\ sess[j].row.token = sess[k].row.token
     /\ sess[j].verdict \notin {"invalid", "mismatch"}
     /\ sess[k].verdict # "mismatch"
     /\ sess[k].verdict = "invalid" =>
          \E i \in invitations : i.token = sess[k].row.token /\ i.accepted_at # Never) =>
      /\ (sess[j].verdict \in {"ok", "error"}) # (sess[k].verdict \in {"ok", "error"})
      /\ (sess[j].verdict = "ok") # (sess[k].verdict = "ok")
      /\ sess[j].verdict = "ok" => sess[k].verdict \in {"invalid", "conflict"}
      /\ sess[k].verdict = "ok" => sess[j].verdict \in {"invalid", "conflict"}

\* C7. Acceptance atomicity: when an acceptInvitation call that has found
\* its invitation finishes, accepted_at of that invitation is set by the
\* call exactly if the call has created the membership.
AcceptanceAtomicity ==
  [][ \A k \in Sessions :
        (sess[k].pc \in {"found", "inserted"} /\ sess'[k].pc = "done") =>
          /\ sess[k].pc = "inserted" =>
               \E i \in invitations' : i.token = sess[k].row.token /\ i.accepted_at # Never
          /\ sess[k].pc = "found" => invitations' = invitations
    ]_vars

SuccessfulAcceptance ==
  [][ \A k \in Sessions :
        /\ (sess[k] = Idle /\ sess'[k] # Idle) =>
             \A i \in invitations :
               (/\ i.token = sess'[k].row.token
                /\ i.accepted_at = Never /\ i.expires_at > now
                /\ i.email = Email[sess'[k].user]
                /\ ~ is_super_admin(sess'[k].user)
                /\ ~ is_school_member(sess'[k].user, i.school_id)) =>
                 sess'[k].pc = "found"
        /\ (/\ sess[k].pc = "found" /\ sess'[k].pc # "found"
            /\ sess[k].row.email = Email[sess[k].user]
            /\ ~ is_super_admin(sess[k].user)
            /\ ~ is_school_member(sess[k].user, sess[k].row.school_id)) =>
             /\ sess'[k].pc = "inserted"
             /\ MemberRow(sess[k].row.school_id, sess[k].user, sess[k].row.role) \in school_members'
        /\ (/\ sess[k].pc = "inserted" /\ sess'[k].pc # "inserted"
            /\ sess[k].row.email = Email[sess[k].user]
            /\ ~ is_super_admin(sess[k].user)) =>
             /\ sess'[k].verdict = "ok"
             /\ MemberRow(sess[k].row.school_id, sess[k].user, sess[k].row.role) \in school_members'
             /\ \E i \in invitations' : i.token = sess[k].row.token /\ i.accepted_at # Never
    ]_vars

\* C10. Email match: an acceptInvitation call by a user whose email differs,
\* ignoring case, from the email of the token's invitation ends at the lookup
\* and changes neither school_members nor invitations; every call that goes
\* on to insert the membership or to set accepted_at is by a user whose
\* email equals the invitation's ignoring case.
EmailMatch ==
  [][ \A k \in Sessions :
        /\ (sess[k] = Idle /\ sess'[k] # Idle) =>
             \A i \in invitations :
               (/\ i.token = sess'[k].row.token
                /\ toLowerCase(Email[sess'[k].user]) # toLowerCase(i.email)) =>
                 /\ sess'[k].pc = "done"
                 /\ school_members' = school_members
                 /\ invitations' = invitations
        /\ sess'[k].pc \in {"found", "inserted"} =>
             toLowerCase(Email[sess'[k].user]) = toLowerCase(sess'[k].row.email)
    ]_vars

\* a call has just been answered "mismatch": the caller reads a pending,
\* unexpired invitation under the token, and it is addressed to someone else
EmailMatchWitness ==
  /\ last.op = "acceptInvitation"
  /\ last.status = "mismatch"
  /\ \E k \in Sessions, i \in invitations :
       /\ sess[k].pc = "done"
       /\ sess[k].user = last.caller
       /\ sess[k].row.token = i.token
       /\ i.accepted_at = Never
       /\ i.expires_at > now
       /\ InvitationSelectPolicy(last.caller, i)
       /\ toLowerCase(Email[last.caller]) # toLowerCase(i.email)

====
